---- MODULE Spec2Model ----
(***************************************************************************)
(* A model of the skcms ICC profile parser (src/unnamed/part_001).         *)
(*                                                                         *)
(* The input buffer is a sequence of bytes.  C pointers into the buffer    *)
(* are byte indices (0 = first byte), NULL is -1.  uint32_t and uint64_t   *)
(* values are little-endian sequences of 16-bit limbs without leading zero *)
(* limbs, truncated to the C type's width wherever the C code stores into  *)
(* that type.  float values are (sign, 24-bit mantissa, exponent) triples  *)
(* with round-to-nearest-even.                                             *)
(***************************************************************************)
EXTENDS Integers, Sequences, FiniteSets, TLC

VARIABLES data,      \* the bytes handed to skcms_Parse (len = Len(data))
          beyond,    \* what a read past the end of the buffer yields
          pc,        \* position of the caller: "start", "parsed"
          profile,   \* the caller-owned skcms_ICCProfile
          ret,       \* return value of skcms_Parse
          hw,        \* one past the highest byte index read so far
          decoded,   \* payload decoders run by skcms_Parse, in order
          why,       \* the return statement skcms_Parse left through
          tag,       \* the caller-owned skcms_ICCTag
          found,     \* return value of the last skcms_GetTagBySignature
          call,      \* arguments of the last accessor call
          out        \* what the last call of a decoder or evaluator returned

vars == <<data, beyond, pc, profile, ret, hw, decoded, why, tag, found, call, out>>

Max(a, b) == IF a > b THEN a ELSE b

Min(a, b) == IF a < b THEN a ELSE b

\* a local variable: F of the value v, which is computed once
Let(v, F(_)) == F(v)

NULL == -1

(***************************************************************************)
(* Unsigned C integers.                                                    *)
(***************************************************************************)
Base == 65536

\* limbs of the C types
W32 == 2
W64 == 4
\* the width, in limbs, of the value of SAFE_SIZEOF: wide enough that the sum
\* of two 32-bit values cannot overflow
SafeSizeofWidth == 4

RECURSIVE BNorm(_)
BNorm(a) ==
    IF a = <<>> THEN a
    ELSE IF a[Len(a)] = 0 THEN BNorm(SubSeq(a, 1, Len(a) - 1))
    ELSE a

\* a small non-negative integer as an unsigned value
Nat32(n) == BNorm(<<n % Base, n \div Base>>)

Limb(a, i) == IF i <= Len(a) THEN a[i] ELSE 0

\* truncation to a type of w limbs
BTrunc(a, w) == BNorm(SubSeq(a, 1, Min(w, Len(a))))

RECURSIVE BAddC(_, _, _, _)
BAddC(a, b, i, c) ==
    IF i > Len(a) /\ i > Len(b)
    THEN (IF c = 0 THEN <<>> ELSE <<c>>)
    ELSE LET s == Limb(a, i) + Limb(b, i) + c
         IN  <<s % Base>> \o BAddC(a, b, i + 1, s \div Base)

\* a + b in a type of w limbs
BAdd(a, b, w) == BTrunc(BAddC(a, b, 1, 0), w)

RECURSIVE BMulC(_, _, _, _)
BMulC(a, k, i, c) ==
    IF i > Len(a)
    THEN (IF c = 0 THEN <<>> ELSE <<c>>)
    ELSE LET s == a[i] * k + c
         IN  <<s % Base>> \o BMulC(a, k, i + 1, s \div Base)

\* a * k in a type of w limbs, k < 2^15
BMul(a, k, w) == BTrunc(BMulC(a, k, 1, 0), w)

RECURSIVE BLtFrom(_, _, _)
BLtFrom(a, b, i) ==
    IF i = 0 THEN FALSE
    ELSE IF a[i] # b[i] THEN a[i] < b[i]
    ELSE BLtFrom(a, b, i - 1)

BLt(a, b) == IF Len(a) # Len(b) THEN Len(a) < Len(b) ELSE BLtFrom(a, b, Len(a))
BLe(a, b) == ~BLt(b, a)

RECURSIVE BSubC(_, _, _, _)
BSubC(a, b, i, c) ==
    IF i > Len(a) THEN <<>>
    ELSE LET s == a[i] - Limb(b, i) - c
         IN  <<(s + Base) % Base>> \o
             BSubC(a, b, i + 1, IF s < 0 THEN 1 ELSE 0)

\* a - b in a type of w limbs (wraps when b > a)
BSub(a, b, w) ==
    BTrunc(BSubC([i \in 1..w |-> Limb(a, i)], b, 1, 0), w)

\* the value as a model integer, when it is below 2^16
BFits(a) == Len(a) <= 1
BVal(a) == IF a = <<>> THEN 0 ELSE a[1]
\* the value of a < 2^31
BInt(a) == Limb(a, 1) + Base * Limb(a, 2)

\* an address no buffer of the model reaches
Far == 1000000

\* base + offset for a uint32_t offset
PtrAdd(base, off) == IF base = NULL \/ ~BFits(off) THEN Far ELSE Min(Far, base + BVal(off))

(***************************************************************************)
(* float                                                                   *)
(***************************************************************************)
F0 == [s |-> 0, m |-> 0, e |-> 0]

RECURSIVE FNormUp(_, _, _)
\* normalise s * m * 2^e for 0 < m < 2^24
FNormUp(s, m, e) ==
    IF m >= 8388608 THEN [s |-> s, m |-> m, e |-> e]
    ELSE FNormUp(s, 2 * m, e - 1)

RECURSIVE BitLen(_)
BitLen(n) == IF n = 0 THEN 0 ELSE 1 + BitLen(n \div 2)

\* (float) of an integer of magnitude mag < 2^32, times 2^sh
IntToFloat(s, mag, sh) ==
    IF mag = <<>> THEN F0
    ELSE IF Limb(mag, 2) < 256 THEN FNormUp(s, Limb(mag, 2) * Base + Limb(mag, 1), sh)
    ELSE Let(BitLen(Limb(mag, 2)) - 8, LAMBDA t :
         Let(Limb(mag, 2) * (2 ^ (16 - t)) + (Limb(mag, 1) \div (2 ^ t)), LAMBDA q :
         Let(Limb(mag, 1) % (2 ^ t), LAMBDA rem :
         Let(IF rem > 2 ^ (t - 1) \/ (rem = 2 ^ (t - 1) /\ q % 2 = 1)
             THEN q + 1 ELSE q, LAMBDA q1 :
             IF q1 = 16777216
             THEN [s |-> s, m |-> 8388608, e |-> t + 1 + sh]
             ELSE [s |-> s, m |-> q1, e |-> t + sh]))))

FNeg(x) == [x EXCEPT !.s = 1 - x.s]

RECURSIVE FDivBits(_, _, _, _)
\* k more quotient bits of r / d by long division
FDivBits(r, d, q, k) ==
    IF k = 0 THEN [q |-> q, r |-> r]
    ELSE IF 2 * r >= d THEN FDivBits(2 * r - d, d, 2 * q + 1, k - 1)
    ELSE FDivBits(2 * r, d, 2 * q, k - 1)

\* x / y for y # 0
FDiv(x, y) ==
    IF x.m = 0 THEN [s |-> (x.s + y.s) % 2, m |-> 0, e |-> 0]
    ELSE Let(IF x.m >= y.m THEN 23 ELSE 24, LAMBDA n :
         \* the integer part is 1 when x.m >= y.m, else 0
         Let(FDivBits(IF x.m >= y.m THEN x.m - y.m ELSE x.m, y.m,
                      IF x.m >= y.m THEN 1 ELSE 0, n), LAMBDA d0 :
         Let(IF 2 * d0.r > y.m \/ (2 * d0.r = y.m /\ d0.q % 2 = 1)
             THEN d0.q + 1 ELSE d0.q, LAMBDA q1 :
             IF q1 = 16777216
             THEN [s |-> (x.s + y.s) % 2, m |-> 8388608, e |-> x.e - y.e - n + 1]
             ELSE [s |-> (x.s + y.s) % 2, m |-> q1, e |-> x.e - y.e - n])))

\* q * 2^e rounded to 24 bits, for q < 2^24 and a remainder rem out of
\* 2 * half: to nearest, ties to even
FRound(s, q, rem, half, e) ==
    Let(IF rem > half \/ (rem = half /\ q % 2 = 1) THEN q + 1 ELSE q, LAMBDA q1 :
        IF q1 = 16777216 THEN [s |-> s, m |-> 8388608, e |-> e + 1]
        ELSE [s |-> s, m |-> q1, e |-> e])

\* x * y: the 48-bit product of the mantissas from their 12-bit halves
FMul(x, y) ==
    IF x.m = 0 \/ y.m = 0 THEN [s |-> (x.s + y.s) % 2, m |-> 0, e |-> 0]
    ELSE
    Let((x.m \div 4096) * (y.m % 4096) + (x.m % 4096) * (y.m \div 4096), LAMBDA mid :
    Let((mid % 4096) * 4096 + (x.m % 4096) * (y.m % 4096), LAMBDA lo24 :
    Let((x.m \div 4096) * (y.m \div 4096) + (mid \div 4096) + (lo24 \div 16777216),
        LAMBDA hi :
        IF hi >= 8388608
        THEN FRound((x.s + y.s) % 2, hi, lo24 % 16777216, 8388608, x.e + y.e + 24)
        ELSE FRound((x.s + y.s) % 2, 2 * hi + ((lo24 % 16777216) \div 8388608),
                    lo24 % 8388608, 4194304, x.e + y.e + 23))))

\* big + small for |big| >= |small| > 0: three more bits of the mantissas,
\* the lowest of them sticky
FAddOrdered(big, small) ==
    IF big.e - small.e > 26 THEN big
    ELSE
    Let((small.m * 8) \div (2 ^ (big.e - small.e)), LAMBDA q :
    Let(IF (small.m * 8) % (2 ^ (big.e - small.e)) # 0 /\ q % 2 = 0 THEN q + 1 ELSE q,
        LAMBDA sm :
    Let(IF big.s = small.s THEN big.m * 8 + sm ELSE big.m * 8 - sm, LAMBDA sum :
        IF sum = 0 THEN [s |-> 0, m |-> 0, e |-> 0]
        ELSE Let(BitLen(sum) - 24, LAMBDA k :
             IF k > 0
             THEN FRound(big.s, sum \div (2 ^ k), sum % (2 ^ k), 2 ^ (k - 1),
                         big.e - 3 + k)
             ELSE [s |-> big.s, m |-> sum * (2 ^ (-k)), e |-> big.e - 3 + k]))))

\* x + y
FAdd(x, y) ==
    IF x.m = 0 THEN (IF y.m = 0 THEN [s |-> x.s * y.s, m |-> 0, e |-> 0] ELSE y)
    ELSE IF y.m = 0 THEN x
    ELSE IF x.e > y.e \/ (x.e = y.e /\ x.m >= y.m) THEN FAddOrdered(x, y)
    ELSE FAddOrdered(y, x)

\* x - y
FSub(x, y) == FAdd(x, FNeg(y))

\* x < y
FLt(x, y) ==
    IF x.m = 0 /\ y.m = 0 THEN FALSE
    ELSE IF x.m = 0 THEN y.s = 0
    ELSE IF y.m = 0 THEN x.s = 1
    ELSE IF x.s # y.s THEN x.s = 1
    ELSE IF x.s = 0 THEN x.e < y.e \/ (x.e = y.e /\ x.m < y.m)
    ELSE y.e < x.e \/ (x.e = y.e /\ y.m < x.m)

\* (int)x for |x| < 2^31: the fraction is dropped
FToInt(x) ==
    IF x.m = 0 \/ x.e < -30 THEN 0
    ELSE (IF x.s = 1 THEN -1 ELSE 1) *
         (IF x.e >= 0 THEN x.m * (2 ^ x.e) ELSE x.m \div (2 ^ (-x.e)))

\* fabsf(x - c) > t for x a read_big_fixed value and the float constants c = cm * 2^-24 (0.5 <= c <= 1)
\* and t = tm * 2^-30 < 1.  For |x| >= 2 the difference is at least 1.  Below
\* that x is a multiple of 2^-16, the difference d * 2^-24 is either exact or
\* at least 1.
FAbsDiffGt(x, cm, tm) ==
    IF x.m = 0 THEN cm * 64 > tm
    ELSE IF x.e + 24 > 1 THEN TRUE
    ELSE LET sh == x.e + 24       \* x = x.m * 2^sh * 2^-24, sh <= 1
             xm == IF sh >= 0 THEN x.m * (2 ^ sh) ELSE x.m \div (2 ^ (-sh))
             d  == (IF x.s = 1 THEN -xm ELSE xm) - cm
             ad == IF d < 0 THEN -d ELSE d
         IN  ad >= 16777216 \/ ad * 64 > tm

(***************************************************************************)
(* Byte reader                                                             *)
(***************************************************************************)
HostLittleEndian == TRUE

Byte(b, p) == IF p >= 0 /\ p < Len(b) THEN b[p + 1] ELSE beyond

\* memcpy of two bytes into a uint16_t, on a little-endian host (le) or a
\* big-endian one
memcpy16(le, b, p) ==
    IF le THEN Byte(b, p) + 256 * Byte(b, p + 1)
    ELSE 256 * Byte(b, p) + Byte(b, p + 1)

LoadHost16(b, p) == memcpy16(HostLittleEndian, b, p)

bswap16(x) == (x % 256) * 256 + (x \div 256)

make_signature(a, b, c, d) == BNorm(<<c * 256 + d, a * 256 + b>>)

\* the readers of ICCProfile.c as built for either host: memcpy, then a
\* byte swap whatever the host
read_big_u16_on(le, b, p) == bswap16(memcpy16(le, b, p))

read_big_u32_on(le, b, p) ==
    LET w0 == memcpy16(le, b, p)
        w1 == memcpy16(le, b, p + 2)
    IN  IF le
        THEN BNorm(<<bswap16(w1), bswap16(w0)>>)
        ELSE BNorm(<<bswap16(w0), bswap16(w1)>>)

\* int32_t as sign and magnitude
read_big_i32_on(le, b, p) ==
    Let(read_big_u32_on(le, b, p), LAMBDA u :
        IF Limb(u, 2) < 32768 THEN [neg |-> 0, mag |-> u]
        ELSE [neg |-> 1,
              mag |-> BNorm(<<(Base - Limb(u, 1)) % Base,
                              Base - Limb(u, 2) - (IF Limb(u, 1) = 0 THEN 0 ELSE 1)>>)])

\* memcpy of eight bytes, then __builtin_bswap64
read_big_u64_on(le, b, p) ==
    LET first  == read_big_u32_on(le, b, p)
        second == read_big_u32_on(le, b, p + 4)
        hi == IF le THEN first ELSE second
        lo == IF le THEN second ELSE first
    IN  BNorm(<<Limb(lo, 1), Limb(lo, 2), Limb(hi, 1), Limb(hi, 2)>>)

read_big_fixed_on(le, b, p) ==
    Let(read_big_i32_on(le, b, p), LAMBDA i : IntToFloat(i.neg, i.mag, -16))

read_big_u16(b, p) == read_big_u16_on(HostLittleEndian, b, p)

read_big_u32(b, p) == read_big_u32_on(HostLittleEndian, b, p)

read_big_i32(b, p) == read_big_i32_on(HostLittleEndian, b, p)

read_big_u64(b, p) == read_big_u64_on(HostLittleEndian, b, p)

read_big_fixed(b, p) == read_big_fixed_on(HostLittleEndian, b, p)

\* the readers of the older ICCProfile.c: shifts of the single bytes
read_big_u16_shifts(b, p) == 256 * Byte(b, p) + Byte(b, p + 1)

read_big_u32_shifts(b, p) ==
    BNorm(<<256 * Byte(b, p + 2) + Byte(b, p + 3), 256 * Byte(b, p) + Byte(b, p + 1)>>)

read_big_u64_shifts(b, p) ==
    LET hi == read_big_u32_shifts(b, p)
        lo == read_big_u32_shifts(b, p + 4)
    IN  BNorm(<<Limb(lo, 1), Limb(lo, 2), Limb(hi, 1), Limb(hi, 2)>>)

read_big_date_time(b, p) ==
    [year   |-> read_big_u16(b, p + 0),
     month  |-> read_big_u16(b, p + 2),
     day    |-> read_big_u16(b, p + 4),
     hour   |-> read_big_u16(b, p + 6),
     minute |-> read_big_u16(b, p + 8),
     second |-> read_big_u16(b, p + 10)]

(***************************************************************************)
(* Records                                                                 *)
(***************************************************************************)
ZeroTF == [g |-> F0, a |-> F0, b |-> F0, c |-> F0, d |-> F0, e |-> F0, f |-> F0]

ZeroCurve ==
    [table_8 |-> NULL, table_16 |-> NULL, table_entries |-> <<>>,
     parametric |-> ZeroTF]

ZeroMatrix3x3 == [r \in 1..3 |-> [c \in 1..3 |-> F0]]
ZeroMatrix3x4 == [r \in 1..3 |-> [c \in 1..4 |-> F0]]

ZeroA2B ==
    [input_channels  |-> 0,
     input_curves    |-> [i \in 1..4 |-> ZeroCurve],
     grid_points     |-> [i \in 1..4 |-> 0],
     grid_8          |-> NULL,
     grid_16         |-> NULL,
     matrix_channels |-> 0,
     matrix_curves   |-> [i \in 1..3 |-> ZeroCurve],
     matrix          |-> ZeroMatrix3x4,
     output_channels |-> 0,
     output_curves   |-> [i \in 1..3 |-> ZeroCurve]]

\* the record after memset(profile, 0, sizeof(*profile))
ZeroProfile ==
    [buffer              |-> NULL,
     size                |-> <<>>,
     cmm_type            |-> <<>>,
     version             |-> <<>>,
     profile_class       |-> <<>>,
     data_color_space    |-> <<>>,
     pcs                 |-> <<>>,
     creation_date_time  |-> [year |-> 0, month |-> 0, day |-> 0,
                              hour |-> 0, minute |-> 0, second |-> 0],
     signature           |-> <<>>,
     platform            |-> <<>>,
     flags               |-> <<>>,
     device_manufacturer |-> <<>>,
     device_model        |-> <<>>,
     device_attributes   |-> <<>>,
     rendering_intent    |-> <<>>,
     illuminant_X        |-> F0,
     illuminant_Y        |-> F0,
     illuminant_Z        |-> F0,
     creator             |-> <<>>,
     profile_id          |-> [i \in 1..16 |-> 0],
     tag_count           |-> <<>>,
     has_trc             |-> FALSE,
     trc                 |-> [i \in 1..3 |-> ZeroCurve],
     has_toXYZD50        |-> FALSE,
     toXYZD50            |-> ZeroMatrix3x3,
     has_A2B             |-> FALSE,
     A2B                 |-> ZeroA2B]

\* a tag handle the caller has not filled yet
NoTag == [signature |-> <<>>, size |-> <<>>, buf |-> NULL, type |-> <<>>]

\* sizeof of the layouts
SizeofHeader == 132
SizeofTagLayout == 12
SizeofXYZ == 20
SizeofPara == 12
SizeofCurv == 12

\* byte offsets of the header_Layout fields
OffSize == 0
OffCmmType == 4
OffVersion == 8
OffProfileClass == 12
OffDataColorSpace == 16
OffPcs == 20
OffCreationDateTime == 24
OffSignature == 36
OffPlatform == 40
OffFlags == 44
OffDeviceManufacturer == 48
OffDeviceModel == 52
OffDeviceAttributes == 56
OffRenderingIntent == 64
OffIlluminantX == 68
OffIlluminantY == 72
OffIlluminantZ == 76
OffCreator == 80
OffProfileId == 84
OffTagCount == 128

\* the four-character codes
Sig_acsp == make_signature(97, 99, 115, 112)
Sig_kTRC == make_signature(107, 84, 82, 67)
Sig_rTRC == make_signature(114, 84, 82, 67)
Sig_gTRC == make_signature(103, 84, 82, 67)
Sig_bTRC == make_signature(98, 84, 82, 67)
Sig_rXYZ == make_signature(114, 88, 89, 90)
Sig_gXYZ == make_signature(103, 88, 89, 90)
Sig_bXYZ == make_signature(98, 88, 89, 90)
Sig_A2B0 == make_signature(65, 50, 66, 48)
Sig_A2B1 == make_signature(65, 50, 66, 49)
Sig_XYZ  == make_signature(88, 89, 90, 32)
Sig_para == make_signature(112, 97, 114, 97)
Sig_curv == make_signature(99, 117, 114, 118)
Sig_mft1 == make_signature(109, 102, 116, 49)
Sig_mft2 == make_signature(109, 102, 116, 50)
Sig_mAB  == make_signature(109, 65, 66, 32)

\* float constants of the illuminant check: mantissas of 0.9642f, 1.0000f,
\* 0.8249f (units of 2^-24) and of 0.0100f (units of 2^-30)
D50_X == 16176592
D50_Y == 16777216
D50_Z == 13839525
D50_Tol == 10737418

F1 == [s |-> 0, m |-> 8388608, e |-> -23]

(***************************************************************************)
(* Tag directory                                                           *)
(***************************************************************************)
get_tag_table(p) == PtrAdd(p.buffer, Nat32(SizeofHeader))

TagEntry(p, i) == Min(Far, get_tag_table(p) + SizeofTagLayout * i)

RECURSIVE FindTag_Last(_, _, _, _)
\* the scan that keeps the last entry with signature sig instead of
\* returning at the first
FindTag_Last(b, p, sig, i) ==
    IF ~BLt(Nat32(i), p.tag_count) THEN [idx |-> -1, n |-> i]
    ELSE IF TagEntry(p, i) >= Len(b)
         THEN IF read_big_u32(b, TagEntry(p, i)) = sig
              THEN [idx |-> i, n |-> i + 1]
              ELSE [idx |-> -1,
                    n |-> IF BFits(p.tag_count) THEN BVal(p.tag_count) ELSE Far]
    ELSE LET rest == FindTag_Last(b, p, sig, i + 1)
         IN  IF rest.idx # -1 THEN rest
             ELSE IF read_big_u32(b, TagEntry(p, i)) = sig
             THEN [idx |-> i, n |-> rest.n]
             ELSE rest

RECURSIVE FindTag(_, _, _, _)
\* the loop of skcms_GetTagBySignature from index i on: the index of the
\* first entry with signature sig, or -1.  Entries that lie wholly past the
\* end of the buffer all read the same bytes, so the first of them decides
\* for the rest.
FindTag(b, p, sig, i) ==
    IF ~BLt(Nat32(i), p.tag_count) THEN [idx |-> -1, n |-> i]
    ELSE IF read_big_u32(b, TagEntry(p, i)) = sig THEN [idx |-> i, n |-> i + 1]
    ELSE IF TagEntry(p, i) >= Len(b)
         THEN [idx |-> -1, n |-> IF BFits(p.tag_count) THEN BVal(p.tag_count) ELSE Far]
    ELSE FindTag(b, p, sig, i + 1)

\* skcms_GetTagBySignature for a non-null profile and tag: the return value,
\* the tag and one past the highest byte read
skcms_GetTagBySignature(b, p, sig, t) ==
    IF p.buffer = NULL THEN [found |-> FALSE, tag |-> t, hw |-> 0]
    ELSE Let(FindTag(b, p, sig, 0), LAMBDA f :
         IF f.idx = -1
         THEN [found |-> FALSE, tag |-> t,
               hw |-> IF f.n = 0 THEN 0
                      ELSE Min(Far, TagEntry(p, Min(f.n, Far) - 1) + 4)]
         ELSE Let(PtrAdd(p.buffer, read_big_u32(b, TagEntry(p, f.idx) + 4)),
                  LAMBDA buf :
              [found |-> TRUE,
               tag   |-> [signature |-> sig,
                          size      |-> read_big_u32(b, TagEntry(p, f.idx) + 8),
                          buf       |-> buf,
                          type      |-> read_big_u32(b, buf)],
               hw    |-> Max(TagEntry(p, f.idx) + 12, Min(Far, buf + 4))]))

\* the test skcms_GetTagByIndex makes of its index before it reads the entry
IndexRejected(p, idx) == BLt(p.tag_count, idx)

\* skcms_GetTagByIndex for a non-null profile and tag: the tag and one past
\* the highest byte read
skcms_GetTagByIndex(b, p, idx, t) ==
    IF p.buffer = NULL \/ IndexRejected(p, idx) THEN [tag |-> t, hw |-> 0]
    ELSE Let(IF BFits(idx) THEN TagEntry(p, BVal(idx)) ELSE Far, LAMBDA entry :
         Let(PtrAdd(p.buffer, read_big_u32(b, entry + 4)), LAMBDA buf :
             [tag |-> [signature |-> read_big_u32(b, entry),
                       size      |-> read_big_u32(b, entry + 8),
                       buf       |-> buf,
                       type      |-> read_big_u32(b, buf)],
              hw  |-> Max(Min(Far, entry + 12), Min(Far, buf + 4))]))

(***************************************************************************)
(* Curves and XYZ                                                          *)
(***************************************************************************)
curve_bytes == <<4, 12, 16, 20, 28>>

\* the results of a float division that are not numbers
FInf(s) == [s |-> s, m |-> 0, e |-> 128]
FNaN == [s |-> 0, m |-> 1, e |-> 128]

\* x / y for finite x and y, the divisor 0 included
FDivZ(x, y) ==
    IF y.m # 0 THEN FDiv(x, y)
    ELSE IF x.m = 0 THEN FNaN
    ELSE FInf((x.s + y.s) % 2)

\* skcms_ICCTag_getParametricCurve for a non-null tag and curve: the return
\* value, the transfer function and one past the highest byte read
skcms_ICCTag_getParametricCurve(b, t, curve) ==
    IF t.type # Sig_para THEN [ok |-> FALSE, curve |-> curve, hw |-> 0]
    ELSE
    Let(read_big_u16(b, t.buf + 8), LAMBDA function_type :
    IF function_type > 4
    THEN [ok |-> FALSE, curve |-> curve, hw |-> t.buf + 10]
    ELSE IF BLt(t.size, BAdd(Nat32(12), Nat32(curve_bytes[function_type + 1]), W32))
    THEN [ok |-> FALSE, curve |-> curve, hw |-> t.buf + 10]
    ELSE
    \* the fixed-point number at tag->buf + 12 + 4k
    Let([k \in 0..6 |-> IF 4 * k < curve_bytes[function_type + 1]
                        THEN read_big_fixed(b, t.buf + 12 + 4 * k)
                        ELSE F0], LAMBDA rd :
    Let([g |-> rd[0], a |-> F1, b |-> F0, c |-> F0, d |-> F0, e |-> F0, f |-> F0],
        LAMBDA t0 :
        [ok |-> TRUE,
         curve |->
            CASE function_type = 0 -> t0
              [] function_type = 1 ->
                    [t0 EXCEPT !.a = rd[1], !.b = rd[2],
                               !.d = FDivZ(FNeg(rd[2]), rd[1])]
              [] function_type = 2 ->
                    [t0 EXCEPT !.a = rd[1], !.b = rd[2], !.e = rd[3],
                               !.d = FDivZ(FNeg(rd[2]), rd[1]), !.f = rd[3]]
              [] function_type = 3 ->
                    [t0 EXCEPT !.a = rd[1], !.b = rd[2], !.c = rd[3], !.d = rd[4]]
              [] function_type = 4 ->
                    [t0 EXCEPT !.a = rd[1], !.b = rd[2], !.c = rd[3],
                               !.e = rd[5], !.f = rd[6]],
         hw |-> t.buf + 12 + curve_bytes[function_type + 1]])))

read_curve_para(b, buf, size, curve) ==
    IF BLt(size, Nat32(SizeofPara))
    THEN [ok |-> FALSE, curve |-> curve, curve_size |-> <<>>, hw |-> 0]
    ELSE
    Let(read_big_u16(b, buf + 8), LAMBDA function_type :
    IF function_type > 4
    THEN [ok |-> FALSE, curve |-> curve, curve_size |-> <<>>, hw |-> buf + 10]
    ELSE IF BLt(size, BAdd(Nat32(SizeofPara), Nat32(curve_bytes[function_type + 1]),
                           SafeSizeofWidth))
    THEN [ok |-> FALSE, curve |-> curve, curve_size |-> <<>>, hw |-> buf + 10]
    ELSE
    \* parameters[k], for the k the function type has
    Let([k \in 0..6 |-> IF 4 * k < curve_bytes[function_type + 1]
                        THEN read_big_fixed(b, buf + SizeofPara + 4 * k)
                        ELSE F0], LAMBDA rd :
    Let([g |-> rd[0], a |-> F1, b |-> F0, c |-> F0, d |-> F0, e |-> F0, f |-> F0],
        LAMBDA t0 :
    Let(CASE function_type = 0 -> [ok |-> TRUE, tf |-> t0]
          [] function_type = 1 ->
                IF rd[1].m = 0
                THEN [ok |-> FALSE, tf |-> [t0 EXCEPT !.a = rd[1], !.b = rd[2]]]
                ELSE [ok |-> TRUE,
                      tf |-> [t0 EXCEPT !.a = rd[1], !.b = rd[2],
                                        !.d = FDiv(FNeg(rd[2]), rd[1])]]
          [] function_type = 2 ->
                IF rd[1].m = 0
                THEN [ok |-> FALSE,
                      tf |-> [t0 EXCEPT !.a = rd[1], !.b = rd[2], !.e = rd[3]]]
                ELSE [ok |-> TRUE,
                      tf |-> [t0 EXCEPT !.a = rd[1], !.b = rd[2], !.e = rd[3],
                                        !.d = FDiv(FNeg(rd[2]), rd[1]),
                                        !.f = rd[3]]]
          [] function_type = 3 ->
                [ok |-> TRUE,
                 tf |-> [t0 EXCEPT !.a = rd[1], !.b = rd[2], !.c = rd[3],
                                   !.d = rd[4]]]
          [] function_type = 4 ->
                [ok |-> TRUE,
                 tf |-> [t0 EXCEPT !.a = rd[1], !.b = rd[2], !.c = rd[3],
                                   !.d = rd[4], !.e = rd[5], !.f = rd[6]]],
        LAMBDA r :
        [ok |-> r.ok,
         curve |-> [table_8 |-> NULL, table_16 |-> NULL, table_entries |-> <<>>,
                    parametric |-> r.tf],
         curve_size |-> BAdd(Nat32(SizeofPara),
                             Nat32(curve_bytes[function_type + 1]), W32),
         \* a failing kGAB or kGABC has read a and b, and e
         hw |-> buf + SizeofPara +
                (IF r.ok THEN curve_bytes[function_type + 1]
                 ELSE 4 * (function_type + 2))]))))

\* the bytes of a curv payload, with one byte for each value
curv_bytes_OneByte(value_count) ==
    BAdd(Nat32(SizeofCurv), BMul(value_count, 1, SafeSizeofWidth), SafeSizeofWidth)

\* SAFE_SIZEOF(curv_Layout) + value_count * SAFE_SIZEOF(uint16_t)
curv_bytes(value_count) ==
    BAdd(Nat32(SizeofCurv), BMul(value_count, 2, SafeSizeofWidth), SafeSizeofWidth)

read_curve_curv(b, buf, size, curve) ==
    IF BLt(size, Nat32(SizeofCurv))
    THEN [ok |-> FALSE, curve |-> curve, curve_size |-> <<>>, hw |-> 0]
    ELSE
    Let(read_big_u32(b, buf + 8), LAMBDA value_count :
    Let(curv_bytes(value_count), LAMBDA need :
    IF BLt(size, need)
    THEN [ok |-> FALSE, curve |-> curve, curve_size |-> <<>>, hw |-> buf + 12]
    ELSE
    LET cs == BTrunc(need, W32)
        gamma == [table_8 |-> NULL, table_16 |-> NULL, table_entries |-> <<>>,
                  parametric |-> [g |-> F0, a |-> F1, b |-> F0, c |-> F0,
                                  d |-> F0, e |-> F0, f |-> F0]]
    IN  IF BLt(value_count, Nat32(2))
        THEN IF value_count = <<>>
             THEN [ok |-> TRUE, curve |-> [gamma EXCEPT !.parametric.g = F1],
                   curve_size |-> cs, hw |-> buf + 12]
             ELSE [ok |-> TRUE,
                   curve |-> [gamma EXCEPT !.parametric.g =
                       IntToFloat(0, Nat32(read_big_u16(b, buf + SizeofCurv)), -8)],
                   curve_size |-> cs, hw |-> buf + 14]
        ELSE [ok |-> TRUE,
              curve |-> [table_8 |-> NULL, table_16 |-> buf + SizeofCurv,
                         table_entries |-> value_count, parametric |-> ZeroTF],
              curve_size |-> cs, hw |-> buf + 12]))

read_curve(b, buf, size, curve) ==
    IF buf = NULL \/ BLt(size, Nat32(4))
    THEN [ok |-> FALSE, curve |-> curve, curve_size |-> <<>>, hw |-> 0]
    ELSE Let(read_big_u32(b, buf), LAMBDA type :
         Let(IF type = Sig_para THEN read_curve_para(b, buf, size, curve)
             ELSE IF type = Sig_curv THEN read_curve_curv(b, buf, size, curve)
             ELSE [ok |-> FALSE, curve |-> curve, curve_size |-> <<>>, hw |-> 0],
             LAMBDA r : [r EXCEPT !.hw = Max(r.hw, Min(Far, buf + 4))]))

read_tag_xyz(b, t) ==
    IF t.type # Sig_XYZ \/ BLt(t.size, Nat32(SizeofXYZ))
    THEN [ok |-> FALSE, x |-> F0, y |-> F0, z |-> F0, hw |-> 0]
    ELSE [ok |-> TRUE,
          x  |-> read_big_fixed(b, t.buf + 8),
          y  |-> read_big_fixed(b, t.buf + 12),
          z  |-> read_big_fixed(b, t.buf + 16),
          hw |-> Min(Far, t.buf + 20)]

\* the matrix with row c set to (x, y, z)
SetColumn_Row(m, c, v) ==
    [r \in 1..3 |-> [k \in 1..3 |->
        IF r # c THEN m[r][k]
        ELSE IF k = 1 THEN v.x ELSE IF k = 2 THEN v.y ELSE v.z]]

\* the matrix with column c (1..3) set to (x, y, z)
SetColumn(m, c, v) ==
    [r \in 1..3 |-> [k \in 1..3 |->
        IF k # c THEN m[r][k]
        ELSE IF r = 1 THEN v.x ELSE IF r = 2 THEN v.y ELSE v.z]]

\* read_to_XYZD50 returning the result of the first two reads only
read_to_XYZD50_IgnoreLast(b, rXYZ, gXYZ, bXYZ, toXYZ) ==
    Let(read_tag_xyz(b, rXYZ), LAMBDA r :
    IF ~r.ok THEN [ok |-> FALSE, m |-> toXYZ, hw |-> 0, n |-> 1]
    ELSE
    Let(read_tag_xyz(b, gXYZ), LAMBDA g :
    IF ~g.ok
    THEN [ok |-> FALSE, m |-> SetColumn(toXYZ, 1, r), hw |-> r.hw, n |-> 2]
    ELSE
    Let(read_tag_xyz(b, bXYZ), LAMBDA bl :
    IF ~bl.ok
    THEN [ok |-> TRUE, m |-> SetColumn(SetColumn(toXYZ, 1, r), 2, g),
          hw |-> Max(r.hw, g.hw), n |-> 3]
    ELSE [ok |-> TRUE,
          m  |-> SetColumn(SetColumn(SetColumn(toXYZ, 1, r), 2, g), 3, bl),
          hw |-> Max(r.hw, Max(g.hw, bl.hw)), n |-> 3])))

\* read_to_XYZD50: the result, the matrix, one past the highest byte read and
\* the number n of tags it looked at
read_to_XYZD50(b, rXYZ, gXYZ, bXYZ, toXYZ) ==
    Let(read_tag_xyz(b, rXYZ), LAMBDA r :
    IF ~r.ok THEN [ok |-> FALSE, m |-> toXYZ, hw |-> 0, n |-> 1]
    ELSE
    Let(read_tag_xyz(b, gXYZ), LAMBDA g :
    IF ~g.ok
    THEN [ok |-> FALSE, m |-> SetColumn(toXYZ, 1, r), hw |-> r.hw, n |-> 2]
    ELSE
    Let(read_tag_xyz(b, bXYZ), LAMBDA bl :
    IF ~bl.ok
    THEN [ok |-> FALSE, m |-> SetColumn(SetColumn(toXYZ, 1, r), 2, g),
          hw |-> Max(r.hw, g.hw), n |-> 3]
    ELSE [ok |-> TRUE,
          m  |-> SetColumn(SetColumn(SetColumn(toXYZ, 1, r), 2, g), 3, bl),
          hw |-> Max(r.hw, Max(g.hw, bl.hw)), n |-> 3])))

(***************************************************************************)
(* A2B                                                                     *)
(***************************************************************************)
SizeofMft1 == 48
SizeofMft2 == 52
SizeofMAB == 32
SizeofMABCLUT == 20

\* ARRAY_COUNT(a2b->input_curves), ARRAY_COUNT(a2b->output_curves)
MaxInputChannels == 4
NumOutputChannels == 3

read_mft_common(b, mftTag, a2b) ==
    LET a1 == [a2b EXCEPT !.matrix_channels = 0,
                          !.input_channels  = Byte(b, mftTag + 8),
                          !.output_channels = Byte(b, mftTag + 9)]
        a2 == [a1 EXCEPT !.grid_points =
                  [i \in 1..4 |-> IF i <= a1.input_channels
                                  THEN Byte(b, mftTag + 10)
                                  ELSE a1.grid_points[i]]]
    IN  IF a1.output_channels # NumOutputChannels
        THEN [ok |-> FALSE, a2b |-> a1, hw |-> mftTag + 10]
        ELSE IF a1.input_channels < 1 \/ a1.input_channels > MaxInputChannels
        THEN [ok |-> FALSE, a2b |-> a1, hw |-> mftTag + 10]
        ELSE IF a2.grid_points[1] < 2
        THEN [ok |-> FALSE, a2b |-> a2, hw |-> mftTag + 11]
        ELSE [ok |-> TRUE, a2b |-> a2, hw |-> mftTag + 11]

\* the grid size with the first axis only
GridSize_FirstAxis(g, gp, i, n) ==
    IF i >= n THEN g ELSE BMul(g, gp[i + 1], W64)

RECURSIVE GridSize(_, _, _, _)
\* grid_size *= grid_points[axis] for axis in i..n-1, in uint64_t
GridSize(g, gp, i, n) ==
    IF i >= n THEN g ELSE GridSize(BMul(g, gp[i + 1], W64), gp, i + 1, n)

\* the table stored under both pointers
SetTable_BothWidths(c, byte_width, ptr, entries) ==
    [c EXCEPT !.table_entries = Nat32(entries), !.table_8 = ptr, !.table_16 = ptr]

SetTable(c, byte_width, ptr, entries) ==
    [c EXCEPT !.table_entries = Nat32(entries),
              !.table_8  = IF byte_width = 1 THEN ptr ELSE NULL,
              !.table_16 = IF byte_width = 1 THEN NULL ELSE ptr]

init_a2b_tables(table_base, max_tables_len, byte_width, input_table_entries, output_table_entries, a2b) ==
    LET byte_len_per_input_table   == input_table_entries * byte_width
        byte_len_per_output_table  == output_table_entries * byte_width
        byte_len_all_input_tables  == a2b.input_channels * byte_len_per_input_table
        byte_len_all_output_tables == a2b.output_channels * byte_len_per_output_table
        grid_size == GridSize(Nat32(a2b.output_channels * byte_width),
                              a2b.grid_points, 0, a2b.input_channels)
        total == BAdd(BAdd(Nat32(byte_len_all_input_tables), grid_size, W64),
                      Nat32(byte_len_all_output_tables), W64)
        output_table_base ==
            PtrAdd(table_base + byte_len_all_input_tables, grid_size)
    IN  IF BLt(max_tables_len, total) THEN [ok |-> FALSE, a2b |-> a2b]
        ELSE [ok |-> TRUE,
              a2b |-> [a2b EXCEPT
                  !.input_curves = [i \in 1..4 |->
                      IF i <= a2b.input_channels
                      THEN SetTable(a2b.input_curves[i], byte_width,
                                    table_base + (i - 1) * byte_len_per_input_table,
                                    input_table_entries)
                      ELSE a2b.input_curves[i]],
                  !.grid_8  = IF byte_width = 1
                              THEN table_base + byte_len_all_input_tables ELSE NULL,
                  !.grid_16 = IF byte_width = 1
                              THEN NULL ELSE table_base + byte_len_all_input_tables,
                  !.output_curves = [i \in 1..3 |->
                      IF i <= a2b.output_channels
                      THEN SetTable(a2b.output_curves[i], byte_width,
                                    output_table_base + (i - 1) * byte_len_per_output_table,
                                    output_table_entries)
                      ELSE a2b.output_curves[i]]]]

read_tag_mft1(b, t, a2b) ==
    IF BLt(t.size, Nat32(SizeofMft1)) THEN [ok |-> FALSE, a2b |-> a2b, hw |-> 0]
    ELSE Let(read_mft_common(b, t.buf, a2b), LAMBDA c :
         IF ~c.ok THEN c
         ELSE Let(init_a2b_tables(t.buf + SizeofMft1,
                                  BSub(t.size, Nat32(SizeofMft1), SafeSizeofWidth),
                                  1, 256, 256, c.a2b), LAMBDA r :
              [ok |-> r.ok, a2b |-> r.a2b, hw |-> c.hw]))

\* the range test with the upper limit one too high
TableEntriesInvalid_Max4097(n) == n < 2 \/ n > 4097

\* ICC spec mandates that 2 <= table_entries <= 4096 (TRUE = reject)
TableEntriesInvalid(n) == n < 2 \/ n > 4096

read_tag_mft2(b, t, a2b) ==
    IF BLt(t.size, Nat32(SizeofMft2)) THEN [ok |-> FALSE, a2b |-> a2b, hw |-> 0]
    ELSE Let(read_mft_common(b, t.buf, a2b), LAMBDA c :
         IF ~c.ok THEN c
         ELSE
         Let(read_big_u16(b, t.buf + 48), LAMBDA input_table_entries :
         Let(read_big_u16(b, t.buf + 50), LAMBDA output_table_entries :
         IF TableEntriesInvalid(input_table_entries) \/
            TableEntriesInvalid(output_table_entries)
         THEN [ok |-> FALSE, a2b |-> c.a2b, hw |-> t.buf + 52]
         ELSE Let(init_a2b_tables(t.buf + SizeofMft2,
                                  BSub(t.size, Nat32(SizeofMft2), SafeSizeofWidth),
                                  2, input_table_entries, output_table_entries,
                                  c.a2b), LAMBDA r :
              [ok |-> r.ok, a2b |-> r.a2b, hw |-> t.buf + 52]))))

UINT32_MAX_minus_3 == <<65532, 65535>>

\* no rounding
RoundUp4_None(x) == x

\* (x + 3) & ~3U
RoundUp4(x) ==
    LET y == BAdd(x, Nat32(3), W32)
    IN  IF y = <<>> THEN y ELSE BNorm([y EXCEPT ![1] = y[1] - (y[1] % 4)])

RECURSIVE read_curves(_, _, _, _, _, _, _)
\* the loop of read_curves from curve i (0-based) on
read_curves(b, buf, size, curve_offset, i, num_curves, curves) ==
    IF i >= num_curves THEN [ok |-> TRUE, curves |-> curves, hw |-> 0]
    ELSE IF BLt(size, curve_offset) THEN [ok |-> FALSE, curves |-> curves, hw |-> 0]
    ELSE
    Let(read_curve(b, PtrAdd(buf, curve_offset), BSub(size, curve_offset, W32),
                   curves[i + 1]), LAMBDA r :
    Let([curves EXCEPT ![i + 1] = r.curve], LAMBDA cs :
    IF ~r.ok THEN [ok |-> FALSE, curves |-> cs, hw |-> r.hw]
    ELSE IF BLt(UINT32_MAX_minus_3, r.curve_size)
    THEN [ok |-> FALSE, curves |-> cs, hw |-> r.hw]
    ELSE
    Let(BAdd(curve_offset, RoundUp4(r.curve_size), W64), LAMBDA new_offset_64 :
    IF new_offset_64 # BTrunc(new_offset_64, W32)
    THEN [ok |-> FALSE, curves |-> cs, hw |-> r.hw]
    ELSE Let(read_curves(b, buf, size, BTrunc(new_offset_64, W32), i + 1,
                         num_curves, cs), LAMBDA rest :
         [rest EXCEPT !.hw = Max(r.hw, rest.hw)]))))

\* the twelve values read as a row-major 3x4
ReadMatrix3x4_RowMajor(b, mtx_buf) ==
    [r \in 1..3 |-> [c \in 1..4 |->
        read_big_fixed(b, mtx_buf + 4 * (4 * (r - 1) + (c - 1)))]]

\* the twelve matrix values at mtx_buf: a row-major 3x3, then the 4th column
ReadMatrix3x4(b, mtx_buf) ==
    [r \in 1..3 |-> [c \in 1..4 |->
        IF c <= 3 THEN read_big_fixed(b, mtx_buf + 4 * (3 * (r - 1) + (c - 1)))
        ELSE read_big_fixed(b, mtx_buf + 4 * (9 + (r - 1)))]]

\* the test that lets an offset stand without its curves
StrayOffset_Ignored(off) == FALSE

\* if (0 != matrix_offset), if (0 != clut_offset): the other half of a pair
\* is there without its curves (TRUE = reject)
StrayOffset(off) == off # <<>>

\* "M" curves and matrix of read_tag_mab
read_tag_mab_M(b, t, a2b, matrix_offset, m_curve_offset) ==
    IF m_curve_offset # <<>>
    THEN IF matrix_offset = <<>> THEN [ok |-> FALSE, a2b |-> a2b, hw |-> 0]
         ELSE
         Let(read_curves(b, t.buf, t.size, m_curve_offset, 0,
                         a2b.output_channels, a2b.matrix_curves), LAMBDA mc :
         Let([a2b EXCEPT !.matrix_channels = a2b.output_channels,
                         !.matrix_curves = mc.curves], LAMBDA a2 :
         IF ~mc.ok THEN [ok |-> FALSE, a2b |-> a2, hw |-> mc.hw]
         ELSE IF BLt(t.size, BAdd(matrix_offset, Nat32(48), SafeSizeofWidth))
         THEN [ok |-> FALSE, a2b |-> a2, hw |-> mc.hw]
         ELSE [ok |-> TRUE,
               a2b |-> [a2 EXCEPT !.matrix =
                           ReadMatrix3x4(b, PtrAdd(t.buf, matrix_offset))],
               hw |-> Max(mc.hw, Min(Far, PtrAdd(t.buf, matrix_offset) + 48))]))
    ELSE IF StrayOffset(matrix_offset) THEN [ok |-> FALSE, a2b |-> a2b, hw |-> 0]
         ELSE [ok |-> TRUE, a2b |-> [a2b EXCEPT !.matrix_channels = 0], hw |-> 0]

RECURSIVE ClutGrid_NoMinimum(_, _, _, _, _)
\* the loop without the test of grid_points[i] < 2
ClutGrid_NoMinimum(b, clut, a2b, grid_size, i) ==
    IF i >= a2b.input_channels
    THEN [ok |-> TRUE, a2b |-> a2b, grid_size |-> grid_size, n |-> i]
    ELSE LET a1 == [a2b EXCEPT !.grid_points[i + 1] = Byte(b, clut + i)]
         IN  ClutGrid_NoMinimum(b, clut, a1,
                                BMul(grid_size, a1.grid_points[i + 1], W64), i + 1)

RECURSIVE ClutGrid(_, _, _, _, _)
\* the grid_points loop of read_tag_mab from axis i on
ClutGrid(b, clut, a2b, grid_size, i) ==
    IF i >= a2b.input_channels
    THEN [ok |-> TRUE, a2b |-> a2b, grid_size |-> grid_size, n |-> i]
    ELSE LET a1 == [a2b EXCEPT !.grid_points[i + 1] = Byte(b, clut + i)]
         IN  IF a1.grid_points[i + 1] < 2
             THEN [ok |-> FALSE, a2b |-> a1, grid_size |-> grid_size, n |-> i + 1]
             ELSE ClutGrid(b, clut, a1,
                           BMul(grid_size, a1.grid_points[i + 1], W64), i + 1)

\* "A" curves and CLUT of read_tag_mab
read_tag_mab_A(b, t, a2b, clut_offset, a_curve_offset) ==
    IF a_curve_offset # <<>>
    THEN IF clut_offset = <<>> THEN [ok |-> FALSE, a2b |-> a2b, hw |-> 0]
         ELSE
         Let(read_curves(b, t.buf, t.size, a_curve_offset, 0,
                         a2b.input_channels, a2b.input_curves), LAMBDA ac :
         Let([a2b EXCEPT !.input_curves = ac.curves], LAMBDA a1 :
         IF ~ac.ok THEN [ok |-> FALSE, a2b |-> a1, hw |-> ac.hw]
         ELSE IF BLt(t.size, BAdd(clut_offset, Nat32(SizeofMABCLUT),
                                  SafeSizeofWidth))
         THEN [ok |-> FALSE, a2b |-> a1, hw |-> ac.hw]
         ELSE
         LET clut  == PtrAdd(t.buf, clut_offset)
             width == Byte(b, clut + 16)
             hwg   == Max(ac.hw, Min(Far, clut + 17))
         IN
         IF width # 1 /\ width # 2
         THEN [ok |-> FALSE, a2b |-> a1, hw |-> hwg]
         ELSE
         Let(ClutGrid(b, clut,
                      [a1 EXCEPT
                          !.grid_8  = IF width = 1 THEN clut + SizeofMABCLUT ELSE NULL,
                          !.grid_16 = IF width = 1 THEN NULL ELSE clut + SizeofMABCLUT],
                      Nat32(a1.output_channels * width), 0), LAMBDA g :
         IF ~g.ok THEN [ok |-> FALSE, a2b |-> g.a2b, hw |-> hwg]
         ELSE IF BLt(t.size, BAdd(BAdd(clut_offset, Nat32(SizeofMABCLUT),
                                       SafeSizeofWidth),
                                  g.grid_size, W64))
         THEN [ok |-> FALSE, a2b |-> g.a2b, hw |-> hwg]
         ELSE [ok |-> TRUE, a2b |-> g.a2b, hw |-> hwg])))
    ELSE IF StrayOffset(clut_offset) THEN [ok |-> FALSE, a2b |-> a2b, hw |-> 0]
         ELSE IF a2b.input_channels # a2b.output_channels
         THEN [ok |-> FALSE, a2b |-> a2b, hw |-> 0]
         ELSE [ok |-> TRUE, a2b |-> [a2b EXCEPT !.input_channels = 0], hw |-> 0]

read_tag_mab(b, t, a2b) ==
    IF BLt(t.size, Nat32(SizeofMAB)) THEN [ok |-> FALSE, a2b |-> a2b, hw |-> 0]
    ELSE
    Let([a2b EXCEPT !.input_channels  = Byte(b, t.buf + 8),
                    !.output_channels = Byte(b, t.buf + 9)], LAMBDA a1 :
    IF a1.output_channels # NumOutputChannels
    THEN [ok |-> FALSE, a2b |-> a1, hw |-> t.buf + 10]
    ELSE IF a1.input_channels > MaxInputChannels
    THEN [ok |-> FALSE, a2b |-> a1, hw |-> t.buf + 10]
    ELSE
    LET b_curve_offset == read_big_u32(b, t.buf + 12)
        matrix_offset  == read_big_u32(b, t.buf + 16)
        m_curve_offset == read_big_u32(b, t.buf + 20)
        clut_offset    == read_big_u32(b, t.buf + 24)
        a_curve_offset == read_big_u32(b, t.buf + 28)
        h1 == t.buf + 32
    IN
    IF b_curve_offset = <<>> THEN [ok |-> FALSE, a2b |-> a1, hw |-> h1]
    ELSE
    Let(read_curves(b, t.buf, t.size, b_curve_offset, 0,
                    a1.output_channels, a1.output_curves), LAMBDA bc :
    IF ~bc.ok
    THEN [ok |-> FALSE, a2b |-> [a1 EXCEPT !.output_curves = bc.curves],
          hw |-> Max(h1, bc.hw)]
    ELSE
    Let(read_tag_mab_M(b, t, [a1 EXCEPT !.output_curves = bc.curves],
                       matrix_offset, m_curve_offset), LAMBDA m :
    IF ~m.ok
    THEN [ok |-> FALSE, a2b |-> m.a2b, hw |-> Max(h1, Max(bc.hw, m.hw))]
    ELSE
    Let(read_tag_mab_A(b, t, m.a2b, clut_offset, a_curve_offset), LAMBDA a :
        [ok |-> a.ok, a2b |-> a.a2b,
         hw |-> Max(h1, Max(bc.hw, Max(m.hw, a.hw)))]))))

read_a2b(b, t, a2b) ==
    IF t.type = Sig_mft1 THEN read_tag_mft1(b, t, a2b)
    ELSE IF t.type = Sig_mft2 THEN read_tag_mft2(b, t, a2b)
    ELSE IF t.type = Sig_mAB THEN read_tag_mab(b, t, a2b)
    ELSE [ok |-> FALSE, a2b |-> a2b, hw |-> 0]


(***************************************************************************)
(* skcms_Parse                                                             *)
(***************************************************************************)
\* the header fields of skcms_Parse, byte-swapped into the profile
ParseHeader(b, p) ==
    [p EXCEPT
        !.buffer              = 0,
        !.size                = read_big_u32(b, OffSize),
        !.cmm_type            = read_big_u32(b, OffCmmType),
        !.version             = read_big_u32(b, OffVersion),
        !.profile_class       = read_big_u32(b, OffProfileClass),
        !.data_color_space    = read_big_u32(b, OffDataColorSpace),
        !.pcs                 = read_big_u32(b, OffPcs),
        !.creation_date_time  = read_big_date_time(b, OffCreationDateTime),
        !.signature           = read_big_u32(b, OffSignature),
        !.platform            = read_big_u32(b, OffPlatform),
        !.flags               = read_big_u32(b, OffFlags),
        !.device_manufacturer = read_big_u32(b, OffDeviceManufacturer),
        !.device_model        = read_big_u32(b, OffDeviceModel),
        !.device_attributes   = read_big_u64(b, OffDeviceAttributes),
        !.rendering_intent    = read_big_u32(b, OffRenderingIntent),
        !.illuminant_X        = read_big_fixed(b, OffIlluminantX),
        !.illuminant_Y        = read_big_fixed(b, OffIlluminantY),
        !.illuminant_Z        = read_big_fixed(b, OffIlluminantZ),
        !.creator             = read_big_u32(b, OffCreator),
        !.profile_id          = [i \in 1..16 |-> Byte(b, OffProfileId + i - 1)],
        !.tag_count           = read_big_u32(b, OffTagCount)]

\* version >> 24
MajorVersion(p) == Limb(p.version, 2) \div 256

\* the header test without the comparison of size with len
HeaderInvalid_NoLen(p, len) ==
    LET tag_table_size == BMul(p.tag_count, SizeofTagLayout, SafeSizeofWidth)
    IN  \/ p.signature # Sig_acsp
        \/ BLt(p.size, BAdd(Nat32(SizeofHeader), tag_table_size, W64))
        \/ MajorVersion(p) > 4

\* the test that takes the profile to fill the buffer exactly
HeaderInvalid_SizeIsLen(p, len) ==
    LET tag_table_size == BMul(p.tag_count, SizeofTagLayout, SafeSizeofWidth)
    IN  \/ p.signature # Sig_acsp
        \/ p.size # Nat32(len)
        \/ BLt(p.size, BAdd(Nat32(SizeofHeader), tag_table_size, W64))
        \/ MajorVersion(p) > 4

\* the signature, size and version test of skcms_Parse (TRUE = reject)
HeaderInvalid(p, len) ==
    LET tag_table_size == BMul(p.tag_count, SizeofTagLayout, SafeSizeofWidth)
    IN  \/ p.signature # Sig_acsp
        \/ BLt(Nat32(len), p.size)
        \/ BLt(p.size, BAdd(Nat32(SizeofHeader), tag_table_size, W64))
        \/ MajorVersion(p) > 4

\* the D50 test without its third comparison
IlluminantInvalid_NoZ(p) ==
    \/ FAbsDiffGt(p.illuminant_X, D50_X, D50_Tol)
    \/ FAbsDiffGt(p.illuminant_Y, D50_Y, D50_Tol)

\* the D50 test of skcms_Parse (TRUE = reject)
IlluminantInvalid(p) ==
    \/ FAbsDiffGt(p.illuminant_X, D50_X, D50_Tol)
    \/ FAbsDiffGt(p.illuminant_Y, D50_Y, D50_Tol)
    \/ FAbsDiffGt(p.illuminant_Z, D50_Z, D50_Tol)

\* the entry test with tag_end computed in 32 bits
TagEntryInvalid_Sum32(p, tag_offset, tag_size) ==
    LET tag_end == BAdd(tag_offset, tag_size, W32)
    IN  BLt(tag_size, Nat32(4)) \/ BLt(p.size, tag_end)

\* the test of one directory entry (TRUE = reject)
TagEntryInvalid(p, tag_offset, tag_size) ==
    LET tag_end == BAdd(tag_offset, tag_size, W64)
    IN  BLt(tag_size, Nat32(4)) \/ BLt(p.size, tag_end)

RECURSIVE ValidateTags(_, _, _)
\* the directory loop of skcms_Parse from entry i on; n entries were read
ValidateTags(b, p, i) ==
    IF ~BLt(Nat32(i), p.tag_count) THEN [ok |-> TRUE, n |-> i]
    ELSE IF TagEntryInvalid(p, read_big_u32(b, TagEntry(p, i) + 4),
                               read_big_u32(b, TagEntry(p, i) + 8))
    THEN [ok |-> FALSE, n |-> i + 1]
    ELSE ValidateTags(b, p, i + 1)

\* the kTRC curve left in slot 0 only
ReplicateTRC_Slot0(c) == <<c, ZeroCurve, ZeroCurve>>

\* profile->trc[1] = profile->trc[0]; profile->trc[2] = profile->trc[0]
ReplicateTRC(c) == <<c, c, c>>

\* gTRC and bTRC decoded into each other's slot
TRCSlots_Swapped(rc, gc, bc) == <<rc, bc, gc>>

\* the slots rTRC, gTRC and bTRC are decoded into
TRCSlots(rc, gc, bc) == <<rc, gc, bc>>

\* kTRC, or rTRC + gTRC + bTRC
PreparseTRC(b, p) ==
    Let(skcms_GetTagBySignature(b, p, Sig_kTRC, NoTag), LAMBDA k :
    IF k.found
    THEN Let(read_curve(b, k.tag.buf, k.tag.size, p.trc[1]), LAMBDA kc :
         IF ~kc.ok
         THEN [ok |-> FALSE, p |-> [p EXCEPT !.trc[1] = kc.curve],
               hw |-> Max(k.hw, kc.hw), dec |-> <<"kTRC">>]
         ELSE [ok |-> TRUE,
               p  |-> [p EXCEPT !.trc = ReplicateTRC(kc.curve),
                                !.has_trc = TRUE,
                                !.toXYZD50[1][1] = p.illuminant_X,
                                !.toXYZD50[2][2] = p.illuminant_Y,
                                !.toXYZD50[3][3] = p.illuminant_Z,
                                !.has_toXYZD50 = TRUE],
               hw |-> Max(k.hw, kc.hw), dec |-> <<"kTRC">>])
    ELSE
    \* the && chain stops at the first lookup that fails
    Let(skcms_GetTagBySignature(b, p, Sig_rTRC, NoTag), LAMBDA r :
    IF ~r.found
    THEN [ok |-> TRUE, p |-> p, hw |-> Max(k.hw, r.hw), dec |-> <<>>]
    ELSE
    Let(skcms_GetTagBySignature(b, p, Sig_gTRC, NoTag), LAMBDA g :
    IF ~g.found
    THEN [ok |-> TRUE, p |-> p, hw |-> Max(k.hw, Max(r.hw, g.hw)), dec |-> <<>>]
    ELSE
    Let(skcms_GetTagBySignature(b, p, Sig_bTRC, NoTag), LAMBDA bl :
    Let(Max(k.hw, Max(r.hw, Max(g.hw, bl.hw))), LAMBDA hs :
    IF ~bl.found THEN [ok |-> TRUE, p |-> p, hw |-> hs, dec |-> <<>>]
    ELSE
    \* the || chain stops at the first curve that fails
    Let(read_curve(b, r.tag.buf, r.tag.size, p.trc[1]), LAMBDA rc :
    IF ~rc.ok
    THEN [ok |-> FALSE, p |-> [p EXCEPT !.trc[1] = rc.curve],
          hw |-> Max(hs, rc.hw), dec |-> <<"rTRC">>]
    ELSE
    Let(read_curve(b, g.tag.buf, g.tag.size, p.trc[2]), LAMBDA gc :
    IF ~gc.ok
    THEN [ok |-> FALSE,
          p |-> [p EXCEPT !.trc[1] = rc.curve, !.trc[2] = gc.curve],
          hw |-> Max(hs, Max(rc.hw, gc.hw)), dec |-> <<"rTRC", "gTRC">>]
    ELSE
    Let(read_curve(b, bl.tag.buf, bl.tag.size, p.trc[3]), LAMBDA bc :
        [ok |-> bc.ok,
         p |-> [p EXCEPT !.trc = TRCSlots(rc.curve, gc.curve, bc.curve),
                         !.has_trc = bc.ok],
         hw |-> Max(hs, Max(rc.hw, Max(gc.hw, bc.hw))),
         dec |-> <<"rTRC", "gTRC", "bTRC">>]))))))))

\* rXYZ + gXYZ + bXYZ
PreparseXYZ(b, p) ==
    Let(skcms_GetTagBySignature(b, p, Sig_rXYZ, NoTag), LAMBDA r :
    IF ~r.found THEN [ok |-> TRUE, p |-> p, hw |-> r.hw, dec |-> <<>>]
    ELSE
    Let(skcms_GetTagBySignature(b, p, Sig_gXYZ, NoTag), LAMBDA g :
    IF ~g.found THEN [ok |-> TRUE, p |-> p, hw |-> Max(r.hw, g.hw), dec |-> <<>>]
    ELSE
    Let(skcms_GetTagBySignature(b, p, Sig_bXYZ, NoTag), LAMBDA bl :
    IF ~bl.found
    THEN [ok |-> TRUE, p |-> p, hw |-> Max(r.hw, Max(g.hw, bl.hw)), dec |-> <<>>]
    ELSE
    Let(read_to_XYZD50(b, r.tag, g.tag, bl.tag, p.toXYZD50), LAMBDA m :
        [ok |-> m.ok,
         p  |-> [p EXCEPT !.toXYZD50 = m.m,
                          !.has_toXYZD50 = p.has_toXYZD50 \/ m.ok],
         hw |-> Max(Max(r.hw, Max(g.hw, bl.hw)), m.hw),
         dec |-> SubSeq(<<"rXYZ", "gXYZ", "bXYZ">>, 1, m.n)]))))

\* the A2B loop trying A2B0 first
A2BSigs_A2B0First == << [sig |-> Sig_A2B0, name |-> "A2B0"],
                        [sig |-> Sig_A2B1, name |-> "A2B1"] >>

\* the signatures the A2B loop tries, in order
A2BSigs == << [sig |-> Sig_A2B1, name |-> "A2B1"],
             [sig |-> Sig_A2B0, name |-> "A2B0"] >>

RECURSIVE PreparseA2B(_, _, _)
\* the A2B loop of skcms_Parse from sigs[i] (1-based) on
PreparseA2B(b, p, i) ==
    IF i > Len(A2BSigs) THEN [ok |-> TRUE, p |-> p, hw |-> 0, dec |-> <<>>]
    ELSE Let(skcms_GetTagBySignature(b, p, A2BSigs[i].sig, NoTag), LAMBDA t :
         IF t.found
         THEN Let(read_a2b(b, t.tag, p.A2B), LAMBDA a :
              [ok |-> a.ok,
               p  |-> [p EXCEPT !.A2B = a.a2b, !.has_A2B = a.ok],
               hw |-> Max(t.hw, a.hw), dec |-> <<A2BSigs[i].name>>])
         ELSE Let(PreparseA2B(b, p, i + 1), LAMBDA rest :
              [rest EXCEPT !.hw = Max(t.hw, rest.hw)]))

\* the length test against the offset of the last header field
TooShort_LastField(len) == len < OffTagCount

\* len < SAFE_SIZEOF(header_Layout)
TooShort(len) == len < SizeofHeader

\* skcms_Parse for a non-null profile
skcms_Parse(b, len) ==
    IF TooShort(len)
    THEN [ret |-> FALSE, profile |-> ZeroProfile, hw |-> 0, decoded |-> <<>>,
          why |-> "short"]
    ELSE
    Let(ParseHeader(b, ZeroProfile), LAMBDA p1 :
    IF HeaderInvalid(p1, len)
    THEN [ret |-> FALSE, profile |-> p1, hw |-> SizeofHeader, decoded |-> <<>>,
          why |-> "header"]
    ELSE IF IlluminantInvalid(p1)
    THEN [ret |-> FALSE, profile |-> p1, hw |-> SizeofHeader, decoded |-> <<>>,
          why |-> "illuminant"]
    ELSE
    Let(ValidateTags(b, p1, 0), LAMBDA v :
    \* one past the last directory entry the loop read
    Let(IF v.n = 0 THEN SizeofHeader ELSE Min(Far, TagEntry(p1, v.n - 1) + 12),
        LAMBDA hv :
    IF ~v.ok
    THEN [ret |-> FALSE, profile |-> p1, hw |-> hv, decoded |-> <<>>,
          why |-> "directory"]
    ELSE
    Let(PreparseTRC(b, p1), LAMBDA t :
    IF ~t.ok
    THEN [ret |-> FALSE, profile |-> t.p, hw |-> Max(hv, t.hw), decoded |-> t.dec,
          why |-> "trc"]
    ELSE
    Let(PreparseXYZ(b, t.p), LAMBDA x :
    IF ~x.ok
    THEN [ret |-> FALSE, profile |-> x.p, hw |-> Max(hv, Max(t.hw, x.hw)),
          decoded |-> t.dec \o x.dec, why |-> "xyz"]
    ELSE
    Let(PreparseA2B(b, x.p, 1), LAMBDA a :
        [ret |-> a.ok, profile |-> a.p,
         hw |-> Max(hv, Max(t.hw, Max(x.hw, a.hw))),
         decoded |-> t.dec \o x.dec \o a.dec,
         why |-> IF a.ok THEN "ok" ELSE "a2b"]))))))

(***************************************************************************)
(* The older parser, skcms_ICCProfile_parse (src/unnamed/part_000).  Its   *)
(* sizes are size_t values, of w limbs: W32 on a 32-bit build, W64 on a    *)
(* 64-bit one.                                                             *)
(***************************************************************************)
\* the signature, size and version test (TRUE = reject):
\* sizeof(skcms_ICCHeader) + tag_count * sizeof(skcms_ICCTag_Layout) in size_t
HeaderInvalidOld(p, len, w) ==
    \/ p.signature # Sig_acsp
    \/ BLt(Nat32(len), p.size)
    \/ BLt(p.size, BAdd(Nat32(SizeofHeader), BMul(p.tag_count, SizeofTagLayout, w), w))
    \/ MajorVersion(p) > 4

\* the test of one directory entry (TRUE = reject)
TagEntryInvalidOld(p, tag_offset, tag_size) ==
    BLt(p.size, BAdd(tag_offset, tag_size, W64))

RECURSIVE ValidateTagsOld(_, _, _)
\* the directory loop from entry i on: n entries were read, or every entry
\* when all is set.  The entries past the bytes of b all read alike, so
\* the first of them decides for the rest.
ValidateTagsOld(b, p, i) ==
    IF ~BLt(Nat32(i), p.tag_count) THEN [ok |-> TRUE, n |-> i, all |-> FALSE]
    ELSE IF TagEntryInvalidOld(p, read_big_u32(b, TagEntry(p, i) + 4),
                                  read_big_u32(b, TagEntry(p, i) + 8))
    THEN [ok |-> FALSE, n |-> i + 1, all |-> FALSE]
    ELSE IF TagEntry(p, i) >= Len(b) THEN [ok |-> TRUE, n |-> i + 1, all |-> TRUE]
    ELSE ValidateTagsOld(b, p, i + 1)

\* skcms_ICCProfile_parse for a non-null profile
skcms_ICCProfile_parse(b, len, w) ==
    IF len < SizeofHeader
    THEN [ret |-> FALSE, profile |-> ZeroProfile, hw |-> 0, decoded |-> <<>>,
          why |-> "short"]
    ELSE
    Let(ParseHeader(b, ZeroProfile), LAMBDA p1 :
    IF HeaderInvalidOld(p1, len, w)
    THEN [ret |-> FALSE, profile |-> p1, hw |-> SizeofHeader, decoded |-> <<>>,
          why |-> "header"]
    ELSE IF IlluminantInvalid(p1)
    THEN [ret |-> FALSE, profile |-> p1, hw |-> SizeofHeader, decoded |-> <<>>,
          why |-> "illuminant"]
    ELSE
    Let(ValidateTagsOld(b, p1, 0), LAMBDA v :
        [ret |-> v.ok, profile |-> p1,
         hw |-> IF v.all THEN Far
                ELSE IF v.n = 0 THEN SizeofHeader
                ELSE Min(Far, TagEntry(p1, v.n - 1) + 12),
         decoded |-> <<>>,
         why |-> IF v.ok THEN "ok" ELSE "directory"]))

(***************************************************************************)
(* Curve evaluation (Curve.c, the second file of src/unnamed/part_001).    *)
(* float arithmetic is IEEE single precision, each operation rounded to    *)
(* float.                                                                  *)
(***************************************************************************)

\* PortableMath.h: x < y ? x : y
fminf_(x, y) == IF FLt(x, y) THEN x ELSE y

\* PortableMath.h: x > y ? x : y
fmaxf_(x, y) == IF FLt(y, x) THEN x ELSE y

\* PortableMath.h: x < 0 ? -x : x
fabsf_(x) == IF FLt(x, F0) THEN FNeg(x) ELSE x

\* TransferFunction.c: c*x + f below d, else (a*x + b)^g + e; the power is
\* modelled for g = 1 only, where it is its base
skcms_TransferFunction_eval(fn, x) ==
    IF FLt(x, fn.d) THEN FAdd(FMul(fn.c, x), fn.f)
    ELSE FAdd(FAdd(FMul(fn.a, x), fn.b), fn.e)

\* the bits left as they are
minus_1_ulp_Same(x) == x

\* the float whose bits are those of x minus one, for x # 0
minus_1_ulp(x) ==
    IF x.m > 8388608 THEN [x EXCEPT !.m = x.m - 1]
    ELSE [x EXCEPT !.m = 16777215, !.e = x.e - 1]

\* (float)n of an int n
IntAsFloat(n) == IF n < 0 THEN IntToFloat(1, Nat32(-n), 0) ELSE IntToFloat(0, Nat32(n), 0)

\* table_8[i] * (1/255.0f)
Table8Value(b, curve, i) ==
    FMul(IntAsFloat(Byte(b, curve.table_8 + i)), FDiv(F1, IntAsFloat(255)))

\* memcpy(&be, p, 2), then ((be << 8) | (be >> 8)) & 0xffff, on either host
Table16Entry(le, b, p) ==
    Let(memcpy16(le, b, p), LAMBDA be : ((be * 256) + (be \div 256)) % 65536)

\* the two bytes at table_16 + 2*i, swapped, * (1/65535.0f)
Table16Value(b, curve, i) ==
    FMul(IntAsFloat(Table16Entry(HostLittleEndian, b, curve.table_16 + 2 * i)),
         FDiv(F1, IntAsFloat(65535)))

\* skcms_eval_curve(curve, x) for a curve with table_entries - 1 < 2^31 as
\* a float: the value, the two table indices and the extent of the bytes
\* read
skcms_eval_curve(b, curve, x) ==
    IF curve.table_entries = <<>>
    THEN [y |-> skcms_TransferFunction_eval(curve.parametric, x),
          ix |-> F0, lo |-> NULL, hi |-> NULL, hw |-> 0]
    ELSE
    Let(FMul(fmaxf_(F0, fminf_(x, F1)),
             IntToFloat(0, BSub(curve.table_entries, Nat32(1), W32), 0)), LAMBDA ix :
    Let(FToInt(ix), LAMBDA lo :
    Let(FToInt(minus_1_ulp(FAdd(ix, F1))), LAMBDA hi :
    Let(FSub(ix, IntAsFloat(lo)), LAMBDA t :
    Let(IF curve.table_8 # NULL THEN Table8Value(b, curve, lo)
        ELSE Table16Value(b, curve, lo), LAMBDA l :
    Let(IF curve.table_8 # NULL THEN Table8Value(b, curve, hi)
        ELSE Table16Value(b, curve, hi), LAMBDA h :
        [y  |-> FAdd(l, FMul(FSub(h, l), t)),
         ix |-> ix,
         lo |-> lo,
         hi |-> hi,
         hw |-> IF curve.table_8 # NULL THEN curve.table_8 + Max(lo, hi) + 1
                ELSE curve.table_16 + 2 * Max(lo, hi) + 2]))))))

\* sample i of skcms_AreApproximateInverses leaves the loop
SampleFails(b, A, B, dx, i) ==
    Let(FMul(IntAsFloat(i), dx), LAMBDA x :
        FLt(FDiv(F1, IntAsFloat(512)),
            fabsf_(FSub(x, skcms_TransferFunction_eval(B, skcms_eval_curve(b, A, x).y)))))

\* the loop of skcms_AreApproximateInverses over N samples: the return
\* value and the number of samples evaluated, the first failing one being
\* the last
InversesOver(b, A, B, N, dx) ==
    Let({ i \in 0..(N - 1) : SampleFails(b, A, B, dx, i) }, LAMBDA fails :
        IF fails = {} THEN [ok |-> TRUE, samples |-> N]
        ELSE [ok |-> FALSE,
              samples |-> 1 + CHOOSE i \in fails : \A j \in fails : i <= j])

\* skcms_AreApproximateInverses(A, B) for table_entries < 2^31
skcms_AreApproximateInverses(b, A, B) ==
    Let(IF BLt(Nat32(256), A.table_entries) THEN BInt(A.table_entries) ELSE 256, LAMBDA N :
        InversesOver(b, A, B, N, FDiv(F1, IntAsFloat(N - 1))))

(***************************************************************************)
(* Inputs: the buffers the caller hands to skcms_Parse                     *)
(***************************************************************************)
BE16(n) == <<n \div 256, n % 256>>
BE32(n) == <<n \div 16777216, (n \div 65536) % 256, (n \div 256) % 256, n % 256>>

\* the big-endian bytes of the 32-bit two's complement of -n, 0 < n < 2^31
BE32Neg(n) ==
    <<255 - ((n - 1) \div 16777216), 255 - (((n - 1) \div 65536) % 256),
      255 - (((n - 1) \div 256) % 256), 255 - ((n - 1) % 256)>>

RECURSIVE Flatten(_)
Flatten(ss) == IF ss = <<>> THEN <<>> ELSE Head(ss) \o Flatten(Tail(ss))

Zeros(n) == [i \in 1..n |-> 0]

\* b with the bytes v written at offset off
Patch(b, off, v) ==
    [i \in 1..Len(b) |-> IF i > off /\ i <= off + Len(v) THEN v[i - off] ELSE b[i]]

B_acsp == <<97, 99, 115, 112>>
B_kTRC == <<107, 84, 82, 67>>
B_rTRC == <<114, 84, 82, 67>>
B_gTRC == <<103, 84, 82, 67>>
B_bTRC == <<98, 84, 82, 67>>
B_rXYZ == <<114, 88, 89, 90>>
B_gXYZ == <<103, 88, 89, 90>>
B_bXYZ == <<98, 88, 89, 90>>
B_A2B0 == <<65, 50, 66, 48>>
B_A2B1 == <<65, 50, 66, 49>>
B_desc == <<100, 101, 115, 99>>
B_XYZ  == <<88, 89, 90, 32>>
B_para == <<112, 97, 114, 97>>
B_curv == <<99, 117, 114, 118>>
B_mft1 == <<109, 102, 116, 49>>
B_mft2 == <<109, 102, 116, 50>>
B_mAB  == <<109, 65, 66, 32>>

\* 15.16 encodings of the D50 illuminant
Raw_D50_X == 63190
Raw_D50_Y == 65536
Raw_D50_Z == 54061

\* a 132-byte header with a D50 illuminant, version 4.x and the given size
\* and tag count
HeaderBytes(size, tag_count) ==
    LET fill == [i \in 1..SizeofHeader |-> (7 * i) % 251]
    IN  Patch(Patch(Patch(Patch(Patch(Patch(Patch(fill,
            OffSize, BE32(size)),
            OffVersion, <<4, 48, 0, 0>>),
            OffSignature, B_acsp),
            OffIlluminantX, BE32(Raw_D50_X)),
            OffIlluminantY, BE32(Raw_D50_Y)),
            OffIlluminantZ, BE32(Raw_D50_Z)),
            OffTagCount, BE32(tag_count))

RECURSIVE PayloadOffset(_, _)
\* offset of payload i (1-based) when the payloads follow the directory
PayloadOffset(tags, i) ==
    IF i = 1 THEN SizeofHeader + SizeofTagLayout * Len(tags)
    ELSE PayloadOffset(tags, i - 1) + Len(tags[i - 1].pay)

\* a profile with the given tags: header, directory, payloads in order.
\* A tag is [sig, pay, size]: its signature, its payload bytes and the size
\* its directory entry declares.
BuildProfile(tags) ==
    LET body == Flatten([i \in 1..Len(tags) |-> tags[i].pay])
        dir  == Flatten([i \in 1..Len(tags) |->
                    tags[i].sig \o BE32(PayloadOffset(tags, i)) \o BE32(tags[i].size)])
        total == SizeofHeader + Len(dir) + Len(body)
    IN  HeaderBytes(total, Len(tags)) \o dir \o body

T(sig, pay) == [sig |-> sig, pay |-> pay, size |-> Len(pay)]

\* payloads
Curv(vals) ==
    B_curv \o Zeros(4) \o BE32(Len(vals)) \o
    [i \in 1..(2 * Len(vals)) |->
        IF i % 2 = 1 THEN vals[(i + 1) \div 2] \div 256 ELSE vals[i \div 2] % 256]
Para(ft, params) ==
    B_para \o Zeros(4) \o BE16(ft) \o Zeros(2) \o
    Flatten([i \in 1..Len(params) |-> BE32(params[i])])
Xyz(x, y, z) == B_XYZ \o Zeros(4) \o BE32(x) \o BE32(y) \o BE32(z)


\* grid, table and matrix bytes: n bytes, none of them zero
Blob(n) == [i \in 1..n |-> 1 + (i % 7)]

Mft1(ic, oc, gp, ntab) ==
    B_mft1 \o Zeros(4) \o <<ic, oc, gp, 0>> \o Blob(36) \o Blob(ntab)
Mft2(ic, oc, gp, ite, ote, ntab) ==
    B_mft2 \o Zeros(4) \o <<ic, oc, gp, 0>> \o Blob(36) \o BE16(ite) \o BE16(ote) \o
    Blob(ntab)
\* an mAB header with its five sub-offsets, followed by the sub-blocks
Mab(ic, oc, b_off, mtx_off, m_off, clut_off, a_off, rest) ==
    B_mAB \o Zeros(4) \o <<ic, oc, 0, 0>> \o BE32(b_off) \o BE32(mtx_off) \o
    BE32(m_off) \o BE32(clut_off) \o BE32(a_off) \o rest
Clut(gps, width, ndata) ==
    gps \o Zeros(16 - Len(gps)) \o <<width, 0, 0, 0>> \o Blob(ndata)

\* well-formed payloads
Curv0 == Curv(<<>>)
Curv1 == Curv(<<512>>)
Curv3 == Curv(<<0, 32768, 65535>>)
Para0 == Para(0, <<144179>>)
Para1 == Para(1, <<144179, 62259, 3277>>)
Para4 == Para(4, <<157286, 62117, 3419, 5072, 2651, 11, 7>>)
XyzR == Xyz(28578, 14581, 912)
XyzG == Xyz(25241, 46981, 6362)
XyzB == Xyz(9371, 3974, 46787)
Mft2Good == Mft2(1, 3, 2, 2, 2, 28)
Mft2Good3 == Mft2(3, 3, 2, 2, 3, 78)
MabB == Mab(3, 3, 32, 0, 0, 0, 0, Curv0 \o Curv1 \o Zeros(2) \o Para0)
MabFull ==
    Mab(2, 3, 32, 68, 116, 188, 164,
        Curv0 \o Curv0 \o Curv0 \o
        Flatten([i \in 1..12 |-> BE32(4096 * i)]) \o
        Para0 \o Para0 \o Para0 \o
        Curv0 \o Curv0 \o
        Clut(<<2, 3>>, 1, 18))

\* an mAB payload that declares no input channels, with the A curves and
\* the CLUT at byte 68: no A curve, a grid of one cell of three bytes
MabNoInputs ==
    Mab(0, 3, 32, 0, 0, 68, 68, Curv0 \o Curv0 \o Curv0 \o Clut(<<>>, 1, 3))

\* an mAB payload with B curves only, b_curve_offset = b_off: a 12-byte
\* curve at byte 32, a 14-byte one at 44, two bytes of padding, an 18-byte
\* one at 60
MabCurves(b_off) ==
    Mab(3, 3, b_off, 0, 0, 0, 0, Curv0 \o Curv1 \o Zeros(2) \o Curv3)
\* tags of it that declare a size other than the bytes they have, and are
\* followed by eight more bytes
MabCurveTags ==
    { [sig |-> B_A2B1, pay |-> MabCurves(b_off) \o Blob(8), size |-> s] :
        b_off \in {32, 44, 60, 79, 200},
        s \in {31, 32, 43, 44, 57, 58, 59, 60, 71, 72, 77, 78, 79, 86} }

\* an mAB payload with all five blocks: B curves at 32, twelve matrix
\* values at 68, M curves at 116, four A curves at 164, a CLUT header at
\* 212 and 56 grid bytes at 232; matrix_offset and clut_offset are given
\* as their four bytes
MabClut(ic, mtx_off, clut_off, gps, width) ==
    B_mAB \o Zeros(4) \o <<ic, 3, 0, 0>> \o BE32(32) \o mtx_off \o BE32(116) \o
    clut_off \o BE32(164) \o
       (Curv0 \o Curv0 \o Curv0 \o
        Flatten([i \in 1..12 |-> BE32(4096 * i)]) \o
        Para0 \o Para0 \o Para0 \o
        Curv0 \o Curv0 \o Curv0 \o Curv0 \o
        Clut(gps, width, 56))
MabClutTag(ic, mtx_off, clut_off, gps, width, s) ==
    [sig |-> B_A2B1, pay |-> MabClut(ic, mtx_off, clut_off, gps, width), size |-> s]
\* grids and widths; declared sizes; offsets of the CLUT and of the matrix
\* at and over the edge of the tag and at the top of 32 bits
MabClutTags ==
    { MabClutTag(ic, BE32(68), BE32(212), gps, width, 288) :
        ic \in {3, 4}, width \in 0..3,
        gps \in {<<2, 2, 2>>, <<1, 2, 2>>, <<2, 2, 1>>, <<2, 2, 2, 1>>,
                 <<2, 2, 2, 2>>} } \cup
    { MabClutTag(3, BE32(68), BE32(212), <<2, 2, 2>>, width, s) :
        width \in 1..2, s \in {231, 232, 255, 256, 279, 280} } \cup
    { MabClutTag(3, BE32(68), clut_off, <<2, 2, 2>>, 1, 288) :
        clut_off \in {BE32(244), BE32(245), BE32(268), BE32(269),
                      BE32Neg(20), BE32Neg(1)} } \cup
    { MabClutTag(3, mtx_off, BE32(212), <<2, 2, 2>>, 1, 288) :
        mtx_off \in {BE32(240), BE32(241), BE32Neg(48), BE32Neg(1)} }

\* malformed payloads
ParaType5 == Para(5, <<144179>>)
ParaAZero == Para(1, <<144179, 0, 3277>>)
ParaShort == Para(3, <<144179, 62259, 3277>>)
\* value_count = 4 with three values present
CurvOver == B_curv \o Zeros(4) \o BE32(4) \o BE16(1) \o BE16(2) \o BE16(3)
\* value_count = 2^31: 2 * value_count is 0 in 32 bits
CurvWrap == B_curv \o Zeros(4) \o <<128, 0, 0, 0>> \o BE16(1) \o BE16(2)
XyzBadType == B_curv \o Zeros(4) \o BE32(1) \o BE32(2) \o BE32(3)
Mft2BadOut == Mft2(1, 4, 2, 2, 2, 28)
A2BBadType == B_XYZ \o Zeros(28)

\* what a directory may hold for one signature: nothing, or a tag
Choice(sig, pays) == {<<>>} \cup {<<T(sig, q)>> : q \in pays}

\* an XYZ tag whose entry declares 19 bytes
XyzShort(sig) == [sig |-> sig, pay |-> XyzG, size |-> 19]

TRCInputs ==
    { k \o r \o g \o bl :
        k  \in Choice(B_kTRC, {Curv1, ParaAZero}),
        r  \in Choice(B_rTRC, {Curv0, A2BBadType}),
        g  \in Choice(B_gTRC, {Curv3, ParaType5}),
        bl \in Choice(B_bTRC, {Para4, CurvOver}) }

XYZInputs ==
    { r \o g \o bl :
        r  \in Choice(B_rXYZ, {XyzR, XyzBadType}),
        g  \in {<<>>, <<T(B_gXYZ, XyzG)>>, <<XyzShort(B_gXYZ)>>},
        bl \in Choice(B_bXYZ, {XyzB, Curv0}) }

A2BInputs ==
    { a0 \o a1 :
        a0 \in Choice(B_A2B0, {Mft2Good3, Mft2BadOut}),
        a1 \in Choice(B_A2B1, {Mft2Good, MabB, MabFull, A2BBadType}) }

\* a few TRC and XYZ combinations to put next to the full range of the others
TRCFew == { <<>>, <<T(B_kTRC, Para1)>>,
            <<T(B_rTRC, Para0), T(B_gTRC, Curv1), T(B_bTRC, Curv3)>> }
XYZFew == { <<>>, <<T(B_rXYZ, XyzR), T(B_gXYZ, XyzG), T(B_bXYZ, XyzB)>>,
            <<T(B_bXYZ, XyzB), T(B_gXYZ, XyzG), T(B_rXYZ, XyzBadType)>> }

\* directories with a signature twice: the first entry is the one used
DupInputs ==
    { <<T(B_kTRC, Curv1), T(B_kTRC, ParaAZero)>>,
      <<T(B_kTRC, ParaType5), T(B_desc, Zeros(8)), T(B_kTRC, Curv0)>>,
      <<T(B_desc, Zeros(8)), T(B_A2B0, Mft1(1, 3, 2, 1030))>>,
      <<T(B_A2B1, CurvWrap), T(B_rTRC, CurvWrap), T(B_kTRC, ParaShort)>> }

TagInputs ==
    { BuildProfile(t \o x) : t \in TRCInputs, x \in XYZFew } \cup
    { BuildProfile(x \o t) : t \in TRCFew, x \in XYZInputs } \cup
    { BuildProfile(t \o a) : t \in TRCFew, a \in A2BInputs } \cup
    { BuildProfile(d) : d \in DupInputs }


\* the most the buffer extends past profile.size
MaxSlack == 2

Base0 == BuildProfile(<<>>)
Base1 == BuildProfile(<<T(B_desc, Zeros(8))>>)
Base2 == BuildProfile(<<T(B_kTRC, Curv1)>>)
Base3 == BuildProfile(<<T(B_rXYZ, XyzR), T(B_gXYZ, XyzG), T(B_bXYZ, XyzB)>>)

\* 32-bit values worth trying in a size, count or offset field
Wild32 == { <<0, 0, 0, 0>>, <<255, 255, 255, 255>>, <<128, 0, 0, 0>>,
            <<21, 85, 85, 86>> }

SizePatches(b) ==
    { Patch(b, OffSize, v) :
        v \in Wild32 \cup { BE32(131), BE32(Len(b) - 1), BE32(Len(b) + 1) } }

VersionPatches(b) ==
    { Patch(b, OffVersion, v) :
        v \in { <<0, 0, 0, 0>>, <<4, 255, 255, 255>>, <<5, 0, 0, 0>>,
                <<255, 0, 0, 0>> } }

SignaturePatches(b) ==
    { Patch(b, OffSignature, v) : v \in { <<97, 99, 115, 113>>, <<0, 0, 0, 0>> } }

IlluminantPatches(b) ==
    { Patch(b, OffIlluminantX, v) :
        v \in { BE32(62534), BE32(62535), BE32(63845), BE32(63846),
                <<255, 255, 9, 42>>, <<0, 0, 0, 0>>, <<127, 255, 255, 255>>,
                <<0, 2, 0, 0>> } } \cup
    { Patch(b, OffIlluminantY, v) :
        v \in { BE32(64880), BE32(64881), BE32(66191), BE32(66192),
                <<128, 0, 0, 0>> } } \cup
    { Patch(b, OffIlluminantZ, v) :
        v \in { BE32(53405), BE32(53406), BE32(54716), BE32(54717),
                <<255, 255, 255, 255>> } }

TagCountPatches(b) ==
    { Patch(b, OffTagCount, v) : v \in Wild32 \cup { BE32(1), BE32(2) } }

\* directory entry 0 of a one-tag profile with another offset and size
EntryPatches(b) ==
    { Patch(Patch(b, SizeofHeader + 4, e[1]), SizeofHeader + 8, e[2]) :
        e \in { <<BE32(Len(b) - 8), BE32(9)>>,
                <<BE32(Len(b) - 4), BE32(4)>>,
                <<BE32(Len(b) - 3), BE32(3)>>,
                <<BE32(Len(b) - 3), BE32(4)>>,
                <<BE32(0), BE32(Len(b))>>,
                <<BE32(0), BE32(Len(b) + 1)>>,
                <<BE32(Len(b)), BE32(0)>>,
                <<BE32(Len(b)), BE32(4)>>,
                <<BE32(SizeofHeader), BE32(12)>>,
                <<<<255, 255, 255, 252>>, BE32(8)>>,
                <<BE32(4), <<255, 255, 255, 255>>>>,
                <<<<128, 0, 0, 0>>, <<128, 0, 0, 0>>>>,
                <<<<255, 255, 255, 255>>, <<255, 255, 255, 255>>>>,
                <<<<255, 255, 255, 0>>, BE32(256 + Len(b))>> } }

\* the buffer cut short, or with bytes after profile.size
Lengths(b) ==
    { SubSeq(b, 1, n) : n \in {0, 1, SizeofHeader - 1, SizeofHeader} } \cup
    { b \o Blob(k) : k \in 1..MaxSlack }

HeaderInputs ==
    UNION { SizePatches(b) \cup VersionPatches(b) \cup SignaturePatches(b) \cup
            IlluminantPatches(b) \cup TagCountPatches(b) \cup Lengths(b) :
            b \in {Base0, Base1} } \cup
    UNION { EntryPatches(b) \cup Lengths(b) : b \in {Base1, Base2} } \cup
    Lengths(Base3) \cup
    { Zeros(SizeofHeader),
      Patch(Base0 \o Blob(8), OffTagCount, <<21, 85, 85, 86>>),
      Patch(Patch(Base0 \o Blob(8), OffTagCount, <<21, 85, 85, 86>>),
            OffSize, BE32(SizeofHeader + 8)) }

Inputs == HeaderInputs \cup TagInputs

\* the arguments skcms_GetTagBySignature is called with: a signature, and
\* whether the profile or the tag pointer is null
SigArgs == { Sig_kTRC, Sig_A2B0, make_signature(100, 101, 115, 99), <<>>,
             <<65535, 65535>> }
CallArgs == { <<sig, "valid">> : sig \in SigArgs } \cup
            { <<Sig_kTRC, "null_profile">>, <<Sig_kTRC, "null_tag">> }

(***************************************************************************)
(* The caller                                                              *)
(***************************************************************************)
NoCall == [op |-> "none", sig |-> <<>>, shape |-> "valid"]
NoOut == [op |-> "none"]

\* the indices skcms_GetTagByIndex is called with, for a profile with n tags
IdxArgs(n) == { <<>>, BSub(n, Nat32(1), W32), n, BAdd(n, Nat32(1), W32) }

Init ==
    /\ data \in Inputs
    /\ beyond \in {0, 255}
    /\ pc = "start"
    /\ profile = ZeroProfile
    /\ ret = FALSE
    /\ hw = 0
    /\ decoded = <<>>
    /\ why = "none"
    /\ tag = NoTag
    /\ found = FALSE
    /\ call = NoCall
    /\ out = NoOut

\* the caller's variables after skcms_Parse returned r
Parsed(r) ==
    /\ profile' = r.profile
    /\ ret' = r.ret
    /\ hw' = r.hw
    /\ decoded' = r.decoded
    /\ why' = r.why

\* skcms_Parse(data, size, &p)
Parse ==
    /\ pc = "start"
    /\ Parsed(skcms_Parse(data, Len(data)))
    /\ pc' = "parsed"
    /\ UNCHANGED <<data, beyond, tag, found, call, out>>

\* the caller's variables after skcms_GetTagBySignature returned r
Looked(r) ==
    /\ tag' = r.tag
    /\ found' = r.found
    /\ hw' = Max(hw, r.hw)

\* skcms_GetTagBySignature(&p, sig, &tag), with p or tag possibly null
GetTagBySignature(sig, shape) ==
    /\ pc = "parsed"
    /\ Looked(IF shape = "valid"
              THEN skcms_GetTagBySignature(data, profile, sig, tag)
              ELSE [found |-> FALSE, tag |-> tag, hw |-> 0])
    /\ call' = [op |-> "GetTagBySignature", sig |-> sig, shape |-> shape]
    /\ UNCHANGED <<data, beyond, pc, profile, ret, decoded, why, out>>

\* skcms_GetTagByIndex(&p, idx, &tag)
GetTagByIndex(idx) ==
    /\ pc = "parsed"
    /\ Looked([found |-> found] @@ skcms_GetTagByIndex(data, profile, idx, tag))
    /\ call' = [op |-> "GetTagByIndex", sig |-> idx, shape |-> "valid"]
    /\ UNCHANGED <<data, beyond, pc, profile, ret, decoded, why, out>>

Next ==
    \/ Parse
    \/ \E a \in CallArgs : GetTagBySignature(a[1], a[2])
    \/ \E idx \in IdxArgs(profile.tag_count) : GetTagByIndex(idx)

Spec == Init /\ [][Next]_vars

(***************************************************************************)
(* The curve decoders on their own: the buffer is one tag payload, which   *)
(* starts at byte 0, followed by bytes that are not part of it             *)
(***************************************************************************)
ParaRaw(ft, params) == B_para \o Zeros(4) \o BE16(ft) \o Zeros(2) \o Flatten(params)

ParaPayloads ==
    { Para0,
      Para(1, <<144179, 196608, 65536>>),
      ParaRaw(1, <<BE32(144179), BE32Neg(32768), BE32(163840)>>),
      ParaRaw(1, <<BE32(65536), BE32(327680), BE32Neg(65536)>>),
      Para(1, <<144179, 62259, 0>>),
      Para(1, <<144179, 0, 65536>>),
      Para(1, <<144179, 0, 0>>),
      Para(2, <<144179, 196608, 65536, 1234>>),
      ParaRaw(2, <<BE32(144179), BE32(458752), BE32Neg(196608), BE32Neg(4321)>>),
      Para(2, <<144179, 0, 65536, 1234>>),
      Para(3, <<157286, 62117, 3419, 5072, 2651>>),
      Para4,
      ParaRaw(4, <<BE32(65536), BE32Neg(1), BE32(2), BE32Neg(3), BE32(4),
                   BE32Neg(5), BE32(6)>>),
      Para(5, <<157286, 62117, 3419, 5072, 2651, 11, 7>>),
      Para(65535, <<157286, 62117, 3419, 5072, 2651, 11, 7>>) }

\* the first bytes of a 'curv' payload of 0x01000004 entries; the rest of its
\* table is not written out, and reads as the byte beyond
CurvHuge == B_curv \o Zeros(4) \o <<1, 0, 0, 4>> \o BE16(0) \o BE16(65535)

\* a 'curv' payload of n entries rising from 0 to 65535
Ramp(n) == Curv([i \in 1..n |-> ((i - 1) * 65535) \div (n - 1)])

CurvPayloads ==
    { Curv0, Curv1, Curv(<<256>>), Curv(<<65535>>), Curv(<<0, 65535>>), Curv3,
      Curv(<<65535, 4660, 0, 258>>), CurvOver, CurvWrap,
      B_curv \o Zeros(4) \o <<255, 255, 255, 255>> \o BE16(1) \o BE16(2),
      B_curv \o Zeros(4) \o <<127, 255, 255, 250>> \o BE16(1) \o BE16(2),
      CurvHuge, Ramp(257), Ramp(283) }

CurveInputs ==
    { q \o Blob(MaxSlack) : q \in ParaPayloads \cup CurvPayloads \cup {XyzR} }

CurveInit ==
    /\ data \in CurveInputs
    /\ beyond \in {0, 255}
    /\ pc = "start"
    /\ profile = ZeroProfile
    /\ ret = FALSE
    /\ hw = 0
    /\ decoded = <<>>
    /\ why = "none"
    /\ tag = NoTag
    /\ found = FALSE
    /\ call = NoCall
    /\ out = NoOut

\* the caller's variables after decoder op, called with size, returned r
Decoded(op, size, r) ==
    /\ out' = [op |-> op, ok |-> r.ok, curve |-> r.curve, curve_size |-> r.curve_size]
    /\ hw' = r.hw
    /\ call' = [op |-> op, size |-> size]
    /\ pc' = "decoded"
    /\ UNCHANGED <<data, beyond, profile, ret, decoded, why, found>>

\* read_curve(buf, size, &curve, &curve_size) on the payload
ReadCurve(size) ==
    /\ pc = "start"
    /\ Decoded("read_curve", size, read_curve(data, 0, Nat32(size), ZeroCurve))
    /\ UNCHANGED tag

\* the handle of the payload, as the accessors fill it
PayloadTag(size) ==
    [signature |-> Sig_rTRC, size |-> Nat32(size), buf |-> 0,
     type |-> read_big_u32(data, 0)]

\* skcms_ICCTag_getParametricCurve(&tag, &curve) on the handle of the payload
GetParametricCurve(size) ==
    /\ pc = "start"
    /\ Decoded("getParametricCurve", size,
               [curve_size |-> <<>>] @@
               skcms_ICCTag_getParametricCurve(data, PayloadTag(size), ZeroTF))
    /\ tag' = PayloadTag(size)

\* the sizes a caller declares for the payload: up to the bytes written
\* out, and the full size of a table that is not written out
DeclaredSizes ==
    0..(Len(data) - MaxSlack) \cup
    (IF data = CurvHuge \o Blob(MaxSlack) THEN {12 + 2 * 16777220} ELSE {})

\* the arguments of skcms_eval_curve
EvalXs ==
    { F0, F1, FNeg(F0), FDiv(F1, IntAsFloat(2)), FDiv(F1, IntAsFloat(3)),
      minus_1_ulp(F1), FNeg(FDiv(F1, IntAsFloat(2))), IntAsFloat(2) }

\* a curve the model can evaluate
Evaluable(c) ==
    IF c.table_entries = <<>> THEN c.parametric.g = F1
    ELSE BLt(c.table_entries, Nat32(2147483647))

\* the caller's variables after skcms_eval_curve(&c, x)
Evaluated(c, x) ==
    Let(skcms_eval_curve(data, c, x), LAMBDA r :
        /\ out' = [op |-> "eval_curve", curve |-> c, x |-> x, y |-> r.y,
                   ix |-> r.ix, lo |-> r.lo, hi |-> r.hi]
        /\ hw' = r.hw
        /\ call' = [op |-> "eval_curve", size |-> 0]
        /\ pc' = "evaluated"
        /\ UNCHANGED <<data, beyond, profile, ret, decoded, why, tag, found>>)

\* skcms_eval_curve on the curve read_curve decoded
EvalCurve(x) ==
    /\ pc = "decoded"
    /\ call.op = "read_curve"
    /\ out.ok
    /\ Evaluable(out.curve)
    /\ Evaluated(out.curve, x)

\* the longest table the model runs skcms_AreApproximateInverses over
MaxSamples == 300

TF(g, a, b, c, d, e, f) == [g |-> g, a |-> a, b |-> b, c |-> c, d |-> d, e |-> e, f |-> f]

\* the transfer functions B of skcms_AreApproximateInverses: the identity,
\* x/2, x + 1/1024, the identity below 1 with 1.5 at 1, and the identity
\* from 2^-20 on with 0.5 below
InverseTFs ==
    { TF(F1, F1, F0, F0, F0, F0, F0),
      TF(F1, FDiv(F1, IntAsFloat(2)), F0, F0, F0, F0, F0),
      TF(F1, F1, FDiv(F1, IntAsFloat(1024)), F0, F0, F0, F0),
      TF(F1, F1, F0, F1, F1, FDiv(F1, IntAsFloat(2)), F0),
      TF(F1, F1, F0, F1, FDiv(F1, IntAsFloat(1048576)), F0, FDiv(F1, IntAsFloat(2))) }

\* skcms_AreApproximateInverses(&curve, &B) on the curve read_curve decoded
AreApproximateInverses(B) ==
    /\ pc = "decoded"
    /\ call.op = "read_curve"
    /\ out.ok
    /\ Evaluable(out.curve)
    /\ BLe(out.curve.table_entries, Nat32(MaxSamples))
    /\ Let(skcms_AreApproximateInverses(data, out.curve, B), LAMBDA r :
           out' = [op |-> "AreApproximateInverses", curve |-> out.curve, B |-> B,
                   ok |-> r.ok, samples |-> r.samples])
    /\ call' = [op |-> "AreApproximateInverses", size |-> 0]
    /\ pc' = "compared"
    /\ UNCHANGED <<data, beyond, profile, ret, hw, decoded, why, tag, found>>

CurveNext ==
    \/ \E size \in DeclaredSizes : ReadCurve(size)
    \/ \E size \in DeclaredSizes : GetParametricCurve(size)
    \/ \E x \in EvalXs : EvalCurve(x)
    \/ \E B \in InverseTFs : AreApproximateInverses(B)

CurveSpec == CurveInit /\ [][CurveNext]_vars

(***************************************************************************)
(* Profiles whose only tag is an A2B1 tag                                  *)
(***************************************************************************)
\* mft1 payloads with room for the tables of four input channels
Mft1Payloads ==
    { Mft1(ic, oc, gp, 2100) : ic \in 0..5, oc \in 2..4, gp \in 0..3 } \cup
    { Mft1(1, 3, 255, 2100), Mft1(1, 3, 2, 1029), Mft1(1, 3, 2, 1030) }

Mft2Payloads ==
    { Mft2(ic, oc, gp, 2, 2, 124) : ic \in {0, 1, 4, 5}, oc \in 2..4, gp \in 1..2 } \cup
    { Mft2(1, 3, 2, ite, ote, 32780) :
        ite \in {1, 2, 3, 4096, 4097}, ote \in {1, 2, 3, 4096, 4097} }

\* an mAB payload for three input channels with all five blocks in place:
\* B curves at 32, matrix at 68, M curves at 116, A curves at 164, CLUT at
\* 200; each of the five offsets is either the place of its block or 0
Mab3(b_off, mtx_off, m_off, clut_off, a_off) ==
    Mab(3, 3, b_off, mtx_off, m_off, clut_off, a_off,
        Curv0 \o Curv0 \o Curv0 \o
        Flatten([i \in 1..12 |-> BE32(4096 * i)]) \o
        Para0 \o Para0 \o Para0 \o
        Curv0 \o Curv0 \o Curv0 \o
        Clut(<<2, 2, 2>>, 1, 24))

MabPayloads ==
    { Mab3(b_off, mtx_off, m_off, clut_off, a_off) :
        b_off \in {0, 32}, mtx_off \in {0, 68}, m_off \in {0, 116},
        clut_off \in {0, 200}, a_off \in {0, 164} } \cup
    { MabB, MabFull, MabNoInputs }

A2BProfiles ==
    { BuildProfile(<<T(B_A2B1, q)>>) :
        q \in Mft1Payloads \cup Mft2Payloads \cup MabPayloads } \cup
    { BuildProfile(<<t>>) : t \in MabCurveTags \cup MabClutTags }

A2BInit ==
    /\ data \in A2BProfiles
    /\ beyond \in {0, 255}
    /\ pc = "start"
    /\ profile = ZeroProfile
    /\ ret = FALSE
    /\ hw = 0
    /\ decoded = <<>>
    /\ why = "none"
    /\ tag = NoTag
    /\ found = FALSE
    /\ call = NoCall
    /\ out = NoOut

\* skcms_eval_curve on the first output curve of the decoded A2B
EvalA2BCurve(x) ==
    /\ pc = "parsed"
    /\ ret
    /\ profile.has_A2B
    /\ Evaluable(profile.A2B.output_curves[1])
    /\ Evaluated(profile.A2B.output_curves[1], x)

A2BNext ==
    \/ Parse
    \/ \E x \in EvalXs : EvalA2BCurve(x)

A2BSpec == A2BInit /\ [][A2BNext]_vars

(***************************************************************************)
(* The transfer-function fitter.  skcms_ApproximateCurve is in the         *)
(* sources; skcms_TransferFunction_approximate (TransferFunction.c) is     *)
(* not, and is modelled as the specification describes it: a sweep over    *)
(* candidate breakpoints, for each a bounded number of Gauss-Newton steps, *)
(* a step being accepted only if it reduces the residual.  What a step     *)
(* proposes is left open.                                                  *)
(***************************************************************************)
INT_MAX == 2147483647

\* the iterations per candidate, the candidates swept, the residual levels
MaxIterations == 2
FitCandidates == 2
MaxResidual == 2

\* (int)n of a uint32_t n
IntCast(n) ==
    IF Limb(n, 2) >= 32768 THEN (Limb(n, 2) - Base) * Base + Limb(n, 1) ELSE BInt(n)

\* x is neither infinite nor NaN
IsFinite(x) == x.e < 128

\* what *approx and *max_error hold before the call
StaleTF == TF(FNaN, FNaN, FNaN, FNaN, FNaN, FNaN, FNaN)
StaleError == FNaN

\* skcms_ApproximateCurve returns false before fitting
ApproximateRejected_NoIntMax(a) ==
    a.curve_null \/ a.curve.table_entries = <<>> \/ a.approx_null

ApproximateRejected(a) ==
    \/ a.curve_null \/ a.curve.table_entries = <<>> \/ a.approx_null
    \/ BLt(<<INT_MAX % Base, INT_MAX \div Base>>, a.curve.table_entries)

\* the fitter's variables when it starts on candidate cand
FitStart(a, cand, best) ==
    [op |-> "ApproximateCurve", ok |-> FALSE, approx |-> StaleTF,
     max_error |-> StaleError,
     width |-> IF a.curve.table_16 # NULL THEN 2 ELSE 1,
     n |-> IntCast(a.curve.table_entries),
     cand |-> cand, iter |-> 0, accepted |-> 0,
     tf |-> TF(F1, F1, F0, F0, F0, F0, F0), residual |-> MaxResidual,
     best |-> best]

NoFit == [found |-> FALSE, tf |-> StaleTF, residual |-> MaxResidual, accepted |-> 0]

\* a fit the fitter may return: a > 0, g > 0, every parameter finite
ValidFit(tf) ==
    /\ \A k \in DOMAIN tf : IsFinite(tf[k])
    /\ FLt(F0, tf.a)
    /\ FLt(F0, tf.g)

\* skcms_ApproximateCurve(curve, approx, max_error)
ApproximateCurve ==
    /\ pc = "start"
    /\ call.op = "ApproximateCurve"
    /\ IF ApproximateRejected(call)
       THEN /\ pc' = "returned"
            /\ out' = [op |-> "ApproximateCurve", ok |-> FALSE, approx |-> StaleTF,
                       max_error |-> StaleError, rejected |-> TRUE]
       ELSE /\ pc' = "fitting"
            /\ out' = FitStart(call, 1, NoFit)
    /\ UNCHANGED <<data, beyond, profile, ret, hw, decoded, why, tag, found, call>>

\* the candidate is done, with the fit cur (found = FALSE for none): the
\* better fit is kept, and the fitter returns after the last candidate
CandidateDone(cur) ==
    Let(IF cur.found /\ (~out.best.found \/ cur.residual < out.best.residual)
        THEN cur ELSE out.best, LAMBDA best :
        IF out.cand < FitCandidates
        THEN /\ pc' = "fitting"
             /\ out' = FitStart(call, out.cand + 1, best)
        ELSE /\ pc' = "returned"
             /\ out' = [op |-> "ApproximateCurve", ok |-> best.found,
                        approx |-> best.tf,
                        max_error |-> IF ~best.found THEN StaleError
                                      ELSE IF best.residual = 0 THEN F0
                                      ELSE FNormUp(0, best.residual, -9),
                        rejected |-> FALSE, accepted |-> best.accepted])

\* the fit the candidate has got to
CurrentFit ==
    [found |-> ValidFit(out.tf), tf |-> out.tf, residual |-> out.residual,
     accepted |-> out.accepted]

\* one Gauss-Newton step proposing the parameters tf with residual r,
\* finite or not
FitStep(tf, r, finite) ==
    /\ pc = "fitting"
    /\ out.iter < MaxIterations
    /\ IF ~finite \/ \E k \in DOMAIN tf : ~IsFinite(tf[k])
       THEN CandidateDone(NoFit)
       ELSE IF r < out.residual
       THEN /\ pc' = "fitting"
            /\ out' = [out EXCEPT !.tf = tf, !.residual = r, !.iter = @ + 1,
                                  !.accepted = @ + 1]
       ELSE CandidateDone(CurrentFit)
    /\ UNCHANGED <<data, beyond, profile, ret, hw, decoded, why, tag, found, call>>

\* the iterations of the candidate are used up
FitExhausted ==
    /\ pc = "fitting"
    /\ out.iter >= MaxIterations
    /\ CandidateDone(CurrentFit)
    /\ UNCHANGED <<data, beyond, profile, ret, hw, decoded, why, tag, found, call>>

\* the parameters a step may propose
FitProposals ==
    { TF(F1, F1, F0, F0, F0, F0, F0),
      TF([s |-> 0, m |-> 8388608, e |-> -22], F1, F0, F0, F0, F0, F0),
      TF(F1, F0, F0, F0, F0, F0, F0),
      TF(FNeg(F1), F1, F0, F0, F0, F0, F0),
      TF(F1, F1, FNaN, F0, F0, F0, F0),
      TF(F1, F1, F0, F0, F0, FInf(0), F0) }

\* a sampled curve of n entries of width w at payload byte 12
FitTable(w, n) ==
    [table_8 |-> IF w = 1 THEN 12 ELSE NULL, table_16 |-> IF w = 2 THEN 12 ELSE NULL,
     table_entries |-> n, parametric |-> ZeroTF]

\* the curves skcms_ApproximateCurve is called with
FitCurves ==
    { ZeroCurve, FitTable(2, Nat32(2)), FitTable(1, Nat32(256)),
      FitTable(2, Nat32(INT_MAX)), FitTable(2, <<0, 32768>>),
      FitTable(1, <<65535, 65535>>) }

FitInit ==
    /\ data = Curv3 \o Blob(MaxSlack)
    /\ beyond \in {0, 255}
    /\ pc = "start"
    /\ profile = ZeroProfile
    /\ ret = FALSE
    /\ hw = 0
    /\ decoded = <<>>
    /\ why = "none"
    /\ tag = NoTag
    /\ found = FALSE
    /\ call \in [op : {"ApproximateCurve"}, curve_null : BOOLEAN, curve : FitCurves,
                 approx_null : BOOLEAN]
    /\ out = NoOut

FitNext ==
    \/ ApproximateCurve
    \/ \E tf \in FitProposals, r \in 0..MaxResidual, finite \in BOOLEAN :
          FitStep(tf, r, finite)
    \/ FitExhausted

\* the call runs to its return: nothing suspends it
FitSpec == FitInit /\ [][FitNext]_vars /\ WF_vars(FitNext)

(***************************************************************************)
(* The header and directory tests of both parsers, on the same buffers     *)
(***************************************************************************)
OldInit ==
    /\ data \in HeaderInputs
    /\ beyond \in {0, 255}
    /\ pc = "start"
    /\ profile = ZeroProfile
    /\ ret = FALSE
    /\ hw = 0
    /\ decoded = <<>>
    /\ why = "none"
    /\ tag = NoTag
    /\ found = FALSE
    /\ call = NoCall
    /\ out = NoOut

\* skcms_ICCProfile_parse(&p, data, size) on a build with size_t of w limbs
ICCProfileParse(w) ==
    /\ pc = "start"
    /\ Parsed(skcms_ICCProfile_parse(data, Len(data), w))
    /\ pc' = "parsed"
    /\ out' = [op |-> "skcms_ICCProfile_parse", size_t |-> w]
    /\ UNCHANGED <<data, beyond, tag, found, call>>

OldNext ==
    \/ Parse
    \/ \E w \in {W32, W64} : ICCProfileParse(w)

OldSpec == OldInit /\ [][OldNext]_vars

(***************************************************************************)
(* The byte readers on their own, as built for a little-endian and for a   *)
(* big-endian host: the buffer is ten bytes, the pointer one of its first  *)
(* three                                                                   *)
(***************************************************************************)
ReaderBuffers ==
    { <<1, 2, 3, 4, 5, 6, 7, 8, 9, 10>>,
      <<0, 0, 0, 0, 0, 0, 0, 0, 0, 0>>,
      <<255, 255, 255, 255, 255, 255, 255, 255, 255, 255>>,
      <<128, 0, 0, 0, 0, 0, 0, 0, 0, 0>>,
      <<0, 0, 0, 128, 0, 0, 0, 0, 0, 0>>,
      <<0, 1, 0, 0, 0, 0, 0, 1, 0, 0>>,
      <<255, 254, 128, 0, 127, 255, 255, 255, 0, 1>>,
      <<7, 9, 9, 7, 7, 9, 9, 7, 7, 9>>,
      <<7, 7, 7, 7, 7, 7, 7, 7, 7, 7>>,
      <<18, 52, 86, 120, 154, 188, 222, 240, 17, 34>> }

ReaderInit ==
    /\ data \in ReaderBuffers
    /\ beyond \in {0, 255}
    /\ pc = "start"
    /\ profile = ZeroProfile
    /\ ret = FALSE
    /\ hw = 0
    /\ decoded = <<>>
    /\ why = "none"
    /\ tag = NoTag
    /\ found = FALSE
    /\ call = NoCall
    /\ out = NoOut

\* every reader called at data + p, on a host that is little-endian (le) or
\* big-endian
ReadBig(le, p) ==
    /\ pc = "start"
    /\ out' = [op |-> "read_big", le |-> le, p |-> p,
               u16 |-> read_big_u16_on(le, data, p),
               u32 |-> read_big_u32_on(le, data, p),
               i32 |-> read_big_i32_on(le, data, p),
               u64 |-> read_big_u64_on(le, data, p),
               fixed |-> read_big_fixed_on(le, data, p),
               entry |-> Table16Entry(le, data, p),
               u16_shifts |-> read_big_u16_shifts(data, p),
               u32_shifts |-> read_big_u32_shifts(data, p),
               u64_shifts |-> read_big_u64_shifts(data, p)]
    /\ hw' = p + 8
    /\ call' = [op |-> "read_big", size |-> 0]
    /\ pc' = "read"
    /\ UNCHANGED <<data, beyond, profile, ret, decoded, why, tag, found>>

ReaderNext == \E le \in BOOLEAN, p \in 0..2 : ReadBig(le, p)

ReaderSpec == ReaderInit /\ [][ReaderNext]_vars



(***************************************************************************)
(* The buffer as the format describes it: big-endian fields at fixed      *)
(* offsets, read with exact arithmetic                                     *)
(***************************************************************************)
DataByte(i) == IF i >= 0 /\ i < Len(data) THEN data[i + 1] ELSE 0

\* the unsigned big-endian 32-bit number at offset off
FieldAt(off) ==
    BNorm(<<DataByte(off + 2) * 256 + DataByte(off + 3),
            DataByte(off) * 256 + DataByte(off + 1)>>)

ExactAdd(a, b) == BAdd(a, b, 8)
ExactMul(a, k) == BMul(a, k, 8)

\* the number of directory entries, for a directory that lies in the buffer
NumEntries ==
    IF BFits(FieldAt(128)) /\ 132 + 12 * BVal(FieldAt(128)) <= Len(data)
    THEN BVal(FieldAt(128)) ELSE 0
Dir == 0 .. (NumEntries - 1)
EntrySig(i)    == FieldAt(132 + 12 * i)
EntryOffset(i) == FieldAt(132 + 12 * i + 4)
EntrySize(i)   == FieldAt(132 + 12 * i + 8)
EntryEnd(i)    == ExactAdd(EntryOffset(i), EntrySize(i))
Two32 == <<0, 0, 1>>

\* parse returned, and no accessor has run since
JustParsed == pc = "parsed" /\ call = NoCall
\* parse got past the header, the illuminant and the directory
PassedDirectory == pc = "parsed" /\ why \in {"trc", "xyz", "a2b", "ok"}

\* | f - c/10000 | <= 0.01, exactly
WithinTolerance(f, c) ==
    /\ f.s = 0
    /\ f.m > 0
    /\ f.e \in {-24, -23}
    /\ BLe(ExactMul(Nat32(2 ^ (-f.e)), c - 100), ExactMul(Nat32(f.m), 10000))
    /\ BLe(ExactMul(Nat32(f.m), 10000), ExactMul(Nat32(2 ^ (-f.e)), c + 100))

(***************************************************************************)
(* C1                                                                      *)
(***************************************************************************)
\* C1: for every buffer and length, whether parse succeeds or fails, every
\* byte parse reads has an index in [0, length): one past the highest index
\* read is at most the length.
C1_ParseReadsInsideBuffer == JustParsed => hw <= Len(data)

\* parse succeeded after reading a tag payload up to the last byte of the buffer
C1_Witness ==
    JustParsed /\ ret /\ decoded # <<>> /\ hw = Len(data) /\ Len(data) > SizeofHeader

(***************************************************************************)
(* C2                                                                      *)
(***************************************************************************)
\* C2: after a successful parse the signature is 'acsp', the major version
\* is at most 4, 132 + 12 * tag_count <= size <= length, each illuminant
\* component is within 0.01 of D50, and every directory entry has size >= 4
\* and offset + size <= size of the profile.
C2_SuccessInvariants ==
    (pc = "parsed" /\ ret) =>
        /\ profile.signature = <<29552, 24931>>
        /\ FieldAt(36) = <<29552, 24931>>
        /\ Limb(profile.version, 2) < 5 * 256
        /\ BLe(ExactAdd(Nat32(132), ExactMul(profile.tag_count, 12)), profile.size)
        /\ BLe(profile.size, Nat32(Len(data)))
        /\ WithinTolerance(profile.illuminant_X, 9642)
        /\ WithinTolerance(profile.illuminant_Y, 10000)
        /\ WithinTolerance(profile.illuminant_Z, 8249)
        /\ profile.tag_count = FieldAt(128)
        /\ BFits(profile.tag_count) /\ NumEntries = BVal(profile.tag_count)
        /\ \A i \in Dir : /\ BLe(Nat32(4), EntrySize(i))
                          /\ BLe(EntryEnd(i), profile.size)

\* a successful parse of a profile with two or more directory entries and
\* bytes after the end of the profile
C2_Witness ==
    /\ pc = "parsed" /\ ret
    /\ NumEntries >= 2
    /\ BLt(profile.size, Nat32(Len(data)))

(***************************************************************************)
(* C3                                                                      *)
(***************************************************************************)
\* the buffer is exactly a header: 'acsp', size 132, major version <= 4,
\* a D50 illuminant and no tags
MinimalProfile ==
    /\ Len(data) = 132
    /\ FieldAt(0) = Nat32(132)
    /\ FieldAt(36) = <<29552, 24931>>
    /\ DataByte(8) <= 4
    /\ FieldAt(68) = Nat32(63190)
    /\ FieldAt(72) = Nat32(65536)
    /\ FieldAt(76) = Nat32(54061)
    /\ FieldAt(128) = <<>>

\* C3: a buffer shorter than 132 bytes fails to parse and leaves the record
\* all zero; a 132-byte buffer holding a valid header with tag_count 0
\* parses with has_trc, has_toXYZD50 and has_A2B all false.
C3_ShortAndMinimal ==
    pc = "parsed" =>
        /\ Len(data) < 132 => (~ret /\ profile = ZeroProfile)
        /\ MinimalProfile =>
              (ret /\ ~profile.has_trc /\ ~profile.has_toXYZD50 /\ ~profile.has_A2B)

\* parse has rejected a buffer one byte short of a header
C3_Witness == pc = "parsed" /\ Len(data) = 131 /\ ~ret /\ profile = ZeroProfile

\* parse has accepted the minimal profile
C3_WitnessMinimal == pc = "parsed" /\ MinimalProfile /\ ret

(***************************************************************************)
(* C4                                                                      *)
(***************************************************************************)
\* C4: the directory test is made on the exact sum offset + size: parse
\* leaves through the directory failure only for an entry with size < 4 or
\* exact sum greater than the profile size, and gets past the directory only
\* when every entry has size >= 4 and exact sum at most the profile size.  So
\* a sum equal to the size is accepted, a sum one more is rejected, and a sum
\* of 2^32 or more is never accepted by wrapping.
C4_DirectorySum64 ==
    /\ (pc = "parsed" /\ why = "directory") =>
          \E i \in Dir : \/ BLt(EntrySize(i), Nat32(4))
                         \/ BLt(FieldAt(0), EntryEnd(i))
    /\ PassedDirectory =>
          \A i \in Dir : /\ BLe(Nat32(4), EntrySize(i))
                         /\ BLe(EntryEnd(i), FieldAt(0))
                         /\ BLt(EntryEnd(i), Two32)

\* parse has rejected an entry of size >= 4 whose sum is 2^32 or more and
\* whose sum modulo 2^32 is at most the profile size
C4_Witness ==
    /\ pc = "parsed" /\ why = "directory"
    /\ NumEntries = 1
    /\ BLe(Nat32(4), EntrySize(0))
    /\ BLe(Two32, EntryEnd(0))
    /\ BLe(BTrunc(EntryEnd(0), 2), FieldAt(0))

\* parse has accepted an entry whose sum equals the profile size
C4_WitnessEqual ==
    PassedDirectory /\ \E i \in Dir : EntryEnd(i) = FieldAt(0)

\* parse has rejected an entry whose sum is the profile size plus one
C4_WitnessOneMore ==
    /\ pc = "parsed" /\ why = "directory" /\ NumEntries = 1
    /\ BLe(Nat32(4), EntrySize(0))
    /\ EntryEnd(0) = ExactAdd(FieldAt(0), Nat32(1))

(***************************************************************************)
(* The directory as the format describes it                                *)
(***************************************************************************)
Present(sig) == \E i \in Dir : EntrySig(i) = sig
FirstIndex(sig) ==
    CHOOSE i \in Dir :
        EntrySig(i) = sig /\ \A j \in Dir : j < i => EntrySig(j) # sig

\* the handle of the first entry with signature sig
TagOf(sig) ==
    LET i == FirstIndex(sig)
    IN  [signature |-> sig,
         size      |-> EntrySize(i),
         buf       |-> BVal(EntryOffset(i)),
         type      |-> FieldAt(BVal(EntryOffset(i)))]

CurveOf(sig) == read_curve(data, TagOf(sig).buf, TagOf(sig).size, ZeroCurve)
XyzOf(sig)   == read_tag_xyz(data, TagOf(sig))
A2BOf(sig)   == read_a2b(data, TagOf(sig), ZeroA2B)
CurveMalformed(sig) == Present(sig) /\ ~CurveOf(sig).ok
XyzMalformed(sig)   == Present(sig) /\ ~XyzOf(sig).ok

RGBTRC == <<Sig_rTRC, Sig_gTRC, Sig_bTRC>>
RGBXYZ == <<Sig_rXYZ, Sig_gXYZ, Sig_bXYZ>>
AllPresent(sigs) == \A k \in 1..3 : Present(sigs[k])
WasDecoded(name) == \E k \in 1..Len(decoded) : decoded[k] = name

(***************************************************************************)
(* C5                                                                      *)
(***************************************************************************)
\* C5 as stated: whenever one of kTRC, rTRC, gTRC, bTRC, rXYZ, gXYZ, bXYZ is
\* present and its payload fails read_curve or read_tag_xyz, parse fails,
\* whatever other tags are present or absent.
C5_AnyMalformedPresentTagFails ==
    PassedDirectory =>
        (   \/ CurveMalformed(Sig_kTRC)
            \/ \E k \in 1..3 : CurveMalformed(RGBTRC[k])
            \/ \E k \in 1..3 : XyzMalformed(RGBXYZ[k])
         => ~ret)

\* C5, amended: a malformed payload fails the parse exactly when parse
\* decodes it.  A malformed kTRC fails it; a malformed rTRC, gTRC or bTRC
\* fails it when kTRC is absent and all three are present; a malformed rXYZ,
\* gXYZ or bXYZ fails it when all three are present; and parse never leaves
\* through the TRC or XYZ failure in any other case.
C5_DecodedMalformedTagFails ==
    PassedDirectory =>
        LET trcBad == \/ CurveMalformed(Sig_kTRC)
                      \/ /\ ~Present(Sig_kTRC)
                         /\ AllPresent(RGBTRC)
                         /\ \E k \in 1..3 : CurveMalformed(RGBTRC[k])
            xyzBad == /\ AllPresent(RGBXYZ)
                      /\ \E k \in 1..3 : XyzMalformed(RGBXYZ[k])
        IN  /\ trcBad => ~ret
            /\ xyzBad => ~ret
            /\ why = "trc" <=> trcBad
            /\ why = "xyz" <=> (~trcBad /\ xyzBad)

\* parse has failed on a malformed bXYZ next to well-formed rXYZ and gXYZ
C5_Witness ==
    /\ PassedDirectory /\ ~ret /\ why = "xyz"
    /\ AllPresent(RGBXYZ)
    /\ XyzOf(Sig_rXYZ).ok /\ XyzOf(Sig_gXYZ).ok /\ ~XyzOf(Sig_bXYZ).ok

\* parse has succeeded with a malformed rTRC that it did not decode
C5_WitnessUndecoded ==
    PassedDirectory /\ ret /\ CurveMalformed(Sig_rTRC)

(***************************************************************************)
(* C6                                                                      *)
(***************************************************************************)
\* C6: when kTRC is present, rTRC, gTRC and bTRC are never decoded; when it
\* decodes, the three TRC slots all equal the curve decoded from kTRC and
\* has_trc and has_toXYZD50 are set; when it is malformed parse fails, also
\* with well-formed rTRC, gTRC and bTRC present.
C6_kTRCPreempts ==
    (PassedDirectory /\ Present(Sig_kTRC)) =>
        /\ WasDecoded("kTRC")
        /\ ~WasDecoded("rTRC") /\ ~WasDecoded("gTRC") /\ ~WasDecoded("bTRC")
        /\ CurveOf(Sig_kTRC).ok =>
              /\ \A k \in 1..3 : profile.trc[k] = CurveOf(Sig_kTRC).curve
              /\ profile.has_trc
              /\ profile.has_toXYZD50
        /\ ~CurveOf(Sig_kTRC).ok => (~ret /\ why = "trc")

\* parse has succeeded on a kTRC next to rTRC, gTRC and bTRC whose curves
\* differ from the kTRC curve
C6_Witness ==
    /\ PassedDirectory /\ ret
    /\ Present(Sig_kTRC) /\ AllPresent(RGBTRC)
    /\ \A k \in 1..3 : CurveOf(RGBTRC[k]).ok
    /\ \A k \in 1..3 : CurveOf(RGBTRC[k]).curve # CurveOf(Sig_kTRC).curve

\* parse has failed on a malformed kTRC next to well-formed rTRC, gTRC, bTRC
C6_WitnessMalformed ==
    /\ PassedDirectory /\ ~ret
    /\ CurveMalformed(Sig_kTRC) /\ AllPresent(RGBTRC)
    /\ \A k \in 1..3 : CurveOf(RGBTRC[k]).ok

(***************************************************************************)
(* C7                                                                      *)
(***************************************************************************)
\* C7: after a successful parse has_trc is true exactly when kTRC is present
\* or rTRC, gTRC and bTRC are all present; with kTRC absent and all three
\* present, slots 0, 1, 2 hold the curves of rTRC, gTRC, bTRC; with kTRC
\* absent and one of the three missing, parse does not fail at the TRC step,
\* has_trc is false and the three slots are zero.
C7_ThreeCurvesOrNone ==
    PassedDirectory =>
        /\ ret => (profile.has_trc <=> (Present(Sig_kTRC) \/ AllPresent(RGBTRC)))
        /\ (ret /\ ~Present(Sig_kTRC) /\ AllPresent(RGBTRC)) =>
              \A k \in 1..3 : profile.trc[k] = CurveOf(RGBTRC[k]).curve
        /\ (~Present(Sig_kTRC) /\ ~AllPresent(RGBTRC)) =>
              /\ why # "trc"
              /\ ~profile.has_trc
              /\ \A k \in 1..3 : profile.trc[k] = ZeroCurve

\* parse has succeeded on rTRC, gTRC and bTRC with three different curves
C7_Witness ==
    /\ PassedDirectory /\ ret /\ profile.has_trc
    /\ ~Present(Sig_kTRC) /\ AllPresent(RGBTRC)
    /\ profile.trc[1] # profile.trc[2]
    /\ profile.trc[2] # profile.trc[3]
    /\ profile.trc[1] # profile.trc[3]

\* parse has succeeded with two of rTRC, gTRC, bTRC present and no kTRC
C7_WitnessMissing ==
    /\ PassedDirectory /\ ret /\ ~profile.has_trc
    /\ ~Present(Sig_kTRC) /\ Present(Sig_rTRC) /\ Present(Sig_gTRC)
    /\ ~Present(Sig_bTRC)

(***************************************************************************)
(* C8                                                                      *)
(***************************************************************************)
\* the s15.16 number at offset off, as the float the profile stores
FixedAt(off) ==
    LET v == FieldAt(off)
    IN  IF Limb(v, 2) >= 32768
        THEN IntToFloat(1, BSub(Two32, v, 3), -16)
        ELSE IntToFloat(0, v, -16)

\* C8: after a successful parse with rXYZ, gXYZ and bXYZ all present, each
\* has type 'XYZ ' and size >= 20, has_toXYZD50 is set, and column c of
\* toXYZD50 is the X, Y, Z of the c-th of them, also when kTRC is present;
\* after a successful parse with kTRC present and fewer than three of them
\* present, toXYZD50 is the diagonal matrix of the illuminant.
C8_XYZColumns ==
    (PassedDirectory /\ ret) =>
        /\ AllPresent(RGBXYZ) =>
              /\ profile.has_toXYZD50
              /\ \A c \in 1..3 :
                    LET t == TagOf(RGBXYZ[c])
                    IN  /\ t.type = <<23072, 22617>>
                        /\ BLe(Nat32(20), t.size)
                        /\ \A r \in 1..3 :
                              profile.toXYZD50[r][c] = FixedAt(t.buf + 4 + 4 * r)
        /\ (Present(Sig_kTRC) /\ ~AllPresent(RGBXYZ)) =>
              /\ profile.has_toXYZD50
              /\ \A r, c \in 1..3 :
                    profile.toXYZD50[r][c] =
                        IF r = c THEN FixedAt(64 + 4 * r) ELSE F0

\* parse has succeeded on kTRC with rXYZ, gXYZ and bXYZ, and the matrix is
\* not symmetric
C8_Witness ==
    /\ PassedDirectory /\ ret
    /\ Present(Sig_kTRC) /\ AllPresent(RGBXYZ)
    /\ profile.toXYZD50[1][2] # profile.toXYZD50[2][1]

\* parse has succeeded on kTRC with fewer than three XYZ tags
C8_WitnessDiagonal ==
    /\ PassedDirectory /\ ret
    /\ Present(Sig_kTRC) /\ Present(Sig_rXYZ) /\ ~AllPresent(RGBXYZ)

(***************************************************************************)
(* C9                                                                      *)
(***************************************************************************)
\* the A2B tag parse selects, when one is present
SelectedA2B == IF Present(Sig_A2B1) THEN Sig_A2B1 ELSE Sig_A2B0
SelectedA2BName == IF Present(Sig_A2B1) THEN "A2B1" ELSE "A2B0"
OtherA2BName == IF Present(Sig_A2B1) THEN "A2B0" ELSE "A2B1"

\* C9: A2B0 is decoded only when A2B1 is absent.  When parse reaches the A2B
\* step with one of them present it decodes A2B1 if present and else A2B0,
\* and never the other one; the A2B record is the decoding of the selected
\* tag; has_A2B is true exactly when one is present and it decoded; and a
\* malformed selected tag fails the parse.
C9_A2B1Preferred ==
    /\ (pc = "parsed" /\ WasDecoded("A2B0")) => ~Present(Sig_A2B1)
    /\ (PassedDirectory /\ why \in {"a2b", "ok"}) =>
          IF Present(Sig_A2B1) \/ Present(Sig_A2B0)
          THEN /\ WasDecoded(SelectedA2BName)
               /\ ~WasDecoded(OtherA2BName)
               /\ profile.A2B = A2BOf(SelectedA2B).a2b
               /\ profile.has_A2B <=> A2BOf(SelectedA2B).ok
               /\ ret <=> A2BOf(SelectedA2B).ok
          ELSE /\ ~WasDecoded("A2B1") /\ ~WasDecoded("A2B0")
               /\ ~profile.has_A2B
               /\ profile.A2B = ZeroA2B
               /\ ret

\* parse has failed on a malformed A2B1 next to a well-formed A2B0
C9_Witness ==
    /\ PassedDirectory /\ ~ret /\ why = "a2b"
    /\ Present(Sig_A2B1) /\ Present(Sig_A2B0)
    /\ ~A2BOf(Sig_A2B1).ok /\ A2BOf(Sig_A2B0).ok

\* parse has decoded A2B1 next to an A2B0 that decodes to something else
C9_WitnessBoth ==
    /\ PassedDirectory /\ ret /\ profile.has_A2B
    /\ Present(Sig_A2B1) /\ Present(Sig_A2B0)
    /\ A2BOf(Sig_A2B0).ok /\ A2BOf(Sig_A2B0).a2b # profile.A2B

\* parse has decoded A2B0 in the absence of A2B1
C9_WitnessA2B0 ==
    PassedDirectory /\ ret /\ profile.has_A2B /\ ~Present(Sig_A2B1)

(***************************************************************************)
(* C10                                                                     *)
(***************************************************************************)
\* the directory of the parsed profile lies in the buffer, and so do the
\* first four payload bytes of the first entry with signature sig
LookupInBuffer(sig) ==
    /\ profile.tag_count = FieldAt(128)
    /\ BFits(FieldAt(128))
    /\ 132 + 12 * BVal(FieldAt(128)) <= Len(data)
    /\ Present(sig) =>
          BLe(ExactAdd(EntryOffset(FirstIndex(sig)), Nat32(4)), Nat32(Len(data)))

\* C10: a call of get_tag_by_signature with a null profile, a null tag or a
\* profile whose buffer is null returns not-found and leaves the tag as it
\* was; so does a call for a signature no entry 0..tag_count-1 has;
\* otherwise it returns found with the handle of the lowest-index entry with
\* that signature: (sig, buffer + offset, size, the first four payload bytes
\* as a big-endian number).
C10_FirstMatch ==
    [][ (pc = "parsed" /\ call'.op = "GetTagBySignature") =>
            IF call'.shape # "valid" \/ profile.buffer = NULL
            THEN ~found' /\ tag' = tag
            ELSE LookupInBuffer(call'.sig) =>
                    IF Present(call'.sig)
                    THEN found' /\ tag' = TagOf(call'.sig)
                    ELSE ~found' /\ tag' = tag ]_vars

\* a lookup has returned the first of two entries with the same signature
C10_Witness ==
    /\ pc = "parsed" /\ call.op = "GetTagBySignature" /\ found
    /\ \E i, j \in Dir : i < j /\ EntrySig(i) = call.sig /\ EntrySig(j) = call.sig
    /\ tag = TagOf(call.sig)

\* a lookup that found nothing has left an earlier handle in the tag
C10_WitnessUnchanged ==
    /\ pc = "parsed" /\ call.op = "GetTagBySignature" /\ ~found
    /\ call.shape = "valid" /\ profile.buffer # NULL
    /\ tag # NoTag

\* a lookup in a profile whose buffer is null
C10_WitnessNullBuffer ==
    /\ pc = "parsed" /\ call.op = "GetTagBySignature" /\ ~found
    /\ call.shape = "valid" /\ profile.buffer = NULL

(***************************************************************************)
(* C11                                                                     *)
(***************************************************************************)
\* the handle of directory entry i
EntryHandle(i) ==
    [signature |-> EntrySig(i),
     size      |-> EntrySize(i),
     buf       |-> BVal(EntryOffset(i)),
     type      |-> FieldAt(BVal(EntryOffset(i)))]

\* C11: on a successfully parsed profile, get_tag_by_index(i) reads only
\* bytes inside [0, size); for i < tag_count it fills the handle from
\* directory entry i, and for every i >= tag_count it reads no directory
\* entry and leaves the output tag unchanged.
C11_IndexInsideDirectory ==
    [][ (pc = "parsed" /\ ret /\ call'.op = "GetTagByIndex") =>
            /\ hw' <= Max(hw, BVal(profile.size))
            /\ IF BLt(call'.sig, profile.tag_count)
               THEN tag' = EntryHandle(BVal(call'.sig))
               ELSE tag' = tag /\ hw' = hw ]_vars

(***************************************************************************)
(* C18                                                                     *)
(***************************************************************************)
\* C18: after parse returned failure, for whatever reason, a call of
\* get_tag_by_signature or get_tag_by_index on the record reads no byte
\* outside [0, length) of the buffer.
C18_FailedRecordIsSafe ==
    [][ (pc = "parsed" /\ ~ret /\ hw <= Len(data) /\
         call'.op \in {"GetTagBySignature", "GetTagByIndex"}) =>
            hw' <= Len(data) ]_vars

(***************************************************************************)
(* C19                                                                     *)
(***************************************************************************)
\* the size the header declares, when the buffer holds a header and that
\* many bytes; -1 otherwise
DeclaredSize ==
    IF Len(data) >= SizeofHeader /\ BFits(FieldAt(OffSize)) /\
       BVal(FieldAt(OffSize)) <= Len(data)
    THEN BVal(FieldAt(OffSize)) ELSE -1

\* buffers that agree with data on the first n bytes: data itself, data cut
\* to n bytes, the n bytes with one more, and data with every later byte
\* changed
AgreeingOn(n) ==
    { data, SubSeq(data, 1, n), SubSeq(data, 1, n) \o <<170>>,
      [i \in 1..Len(data) |-> IF i <= n THEN data[i] ELSE 255 - data[i]] }

\* C19: parse does not write to the buffer; a second parse of the same
\* buffer and length gives the same result and the same profile; and two
\* buffers that agree on the first profile.size bytes, both at least that
\* long, give the same result and the same profile.
C19_ParsePure ==
    [][ (pc = "start" /\ pc' = "parsed") =>
            /\ data' = data
            /\ DeclaredSize # -1 =>
                  \A d2 \in AgreeingOn(DeclaredSize) :
                      /\ skcms_Parse(d2, Len(d2)).ret = ret'
                      /\ ret' => skcms_Parse(d2, Len(d2)).profile = profile' ]_vars

\* a profile with tags was parsed from a buffer with bytes after profile.size
C19_Witness ==
    /\ JustParsed /\ ret /\ decoded # <<>>
    /\ DeclaredSize # -1 /\ DeclaredSize < Len(data)
    /\ Cardinality(AgreeingOn(DeclaredSize)) = 4

\* a parse failed on a buffer with bytes after profile.size
C19_WitnessFailure ==
    /\ JustParsed /\ ~ret /\ why \in {"trc", "xyz", "a2b", "directory"}
    /\ DeclaredSize # -1 /\ DeclaredSize < Len(data)

(***************************************************************************)
(* C12                                                                     *)
(***************************************************************************)
\* the payload under the decoder is a 'para' payload
IsPara == pc = "decoded" /\ FieldAt(0) = Sig_para
\* its function_type field
FunctionType == DataByte(8) * 256 + DataByte(9)
\* the bytes of parameters each function type needs
ParaExtra == [ft \in 0..4 |-> <<4, 12, 16, 20, 28>>[ft + 1]]

\* C12: decoding a 'para' payload of declared size `size`, with read_curve
\* or get_parametric_curve, fails when size < 12, when function_type is
\* not in 0..4, or when size < 12 + extra, extra = 4, 12, 16, 20, 28 for
\* types 0..4; it reads no byte at index >= size of the payload; and on
\* success bytes_consumed = 12 + extra <= size.
C12_ParaWithinSize ==
    IsPara =>
        /\ (call.size < 12 \/ FunctionType > 4 \/
            call.size < 12 + ParaExtra[FunctionType]) => ~out.ok
        /\ hw <= call.size
        /\ (out.ok /\ call.op = "read_curve") =>
              /\ out.curve_size = Nat32(12 + ParaExtra[FunctionType])
              /\ 12 + ParaExtra[FunctionType] <= call.size

(***************************************************************************)
(* C13                                                                     *)
(***************************************************************************)
\* the product of two numbers below 2^24, exactly
Mul24(x, y) ==
    ExactAdd(ExactMul(ExactMul(Nat32(x), y \div 4096), 4096),
             ExactMul(Nat32(x), y % 4096))

RECURSIVE Shl(_, _)
\* a * 2^k, exactly
Shl(a, k) ==
    IF k = 0 THEN a
    ELSE IF k >= 12 THEN Shl(ExactMul(a, 4096), k - 12)
    ELSE ExactMul(a, 2 ^ k)

\* d is a float nearest to -b / a, for floats a # 0 and b: the sign is that
\* of the quotient and | d * a + b | is at most half a unit in the last
\* place of d, times | a |
IsMinusQuotient(d, b, a) ==
    IF b.m = 0 THEN d.m = 0 /\ d.s = (1 + b.s + a.s) % 2
    ELSE LET E   == Min(d.e + a.e - 1, b.e)
             X   == Shl(Mul24(d.m, a.m), d.e + a.e - E)
             Y   == Shl(Nat32(b.m), b.e - E)
             H   == Shl(Nat32(a.m), d.e + a.e - E - 1)
         IN  /\ d.s = (1 + b.s + a.s) % 2
             /\ d.m >= 8388608 /\ d.m < 16777216
             /\ BLe(X, ExactAdd(Y, H))
             /\ BLe(Y, ExactAdd(X, H))

\* the k-th 15.16 parameter of the payload, g being the 0-th
ParaValue(k) == FixedAt(12 + 4 * k)
\* the transfer function the decoder returned
DecodedTF == IF call.op = "read_curve" THEN out.curve.parametric ELSE out.curve
\* the payload is a 'para' payload large enough for its function type
ParaComplete ==
    /\ IsPara /\ FunctionType <= 4
    /\ call.size >= 12 + ParaExtra[FunctionType]

\* C13: a successfully decoded 'para' payload yields a parametric curve
\* (table_entries = 0): (a,b,c,d,e,f) start as (1,0,0,0,0,0) and g is the
\* first 15.16 parameter; type 1 reads a,b; type 2 reads a,b,e and sets
\* f = e; types 1 and 2 fail when a = 0 and otherwise set d = -b/a; type 3
\* reads a,b,c,d; type 4 reads a,b,c,d,e,f from the six consecutive 15.16
\* values that follow g.
C13_ParaParameters ==
    ParaComplete =>
        LET tf == DecodedTF
            P(k) == ParaValue(k)
        IN  /\ (FunctionType \in {1, 2} /\ P(1).m = 0) => ~out.ok
            /\ out.ok =>
                 /\ call.op = "read_curve" =>
                       /\ out.curve.table_entries = <<>>
                       /\ out.curve.table_8 = NULL /\ out.curve.table_16 = NULL
                 /\ tf.g = P(0)
                 /\ CASE FunctionType = 0 ->
                            <<tf.a, tf.b, tf.c, tf.d, tf.e, tf.f>> =
                            <<F1, F0, F0, F0, F0, F0>>
                      [] FunctionType = 1 ->
                            /\ <<tf.a, tf.b, tf.c, tf.e, tf.f>> =
                               <<P(1), P(2), F0, F0, F0>>
                            /\ IsMinusQuotient(tf.d, P(2), P(1))
                      [] FunctionType = 2 ->
                            /\ <<tf.a, tf.b, tf.c, tf.e, tf.f>> =
                               <<P(1), P(2), F0, P(3), P(3)>>
                            /\ IsMinusQuotient(tf.d, P(2), P(1))
                      [] FunctionType = 3 ->
                            <<tf.a, tf.b, tf.c, tf.d, tf.e, tf.f>> =
                            <<P(1), P(2), P(3), P(4), F0, F0>>
                      [] FunctionType = 4 ->
                            <<tf.a, tf.b, tf.c, tf.d, tf.e, tf.f>> =
                            <<P(1), P(2), P(3), P(4), P(5), P(6)>>

(***************************************************************************)
(* C14                                                                     *)
(***************************************************************************)
\* read_curve has run on a 'curv' payload
IsCurv == pc = "decoded" /\ call.op = "read_curve" /\ FieldAt(0) = Sig_curv
\* its value_count field and its first value
ValueCount == FieldAt(8)
FirstValue == DataByte(12) * 256 + DataByte(13)
\* 12 + 2 * value_count, exactly
CurvNeed == ExactAdd(Nat32(12), ExactMul(ValueCount, 2))
\* the float f is n / 256
IsOver256(f, n) ==
    IF n = 0 THEN f = F0
    ELSE /\ f.s = 0 /\ f.m >= 8388608 /\ f.m < 16777216
         /\ f.e + 8 <= 0
         /\ f.m = n * (2 ^ (-(f.e + 8)))

\* C14: decoding a 'curv' payload fails when size < 12 or
\* size < 12 + 2 * value_count, computed without wraparound for every
\* 32-bit value_count; otherwise bytes_consumed = 12 + 2 * value_count, and
\* value_count = 0 yields the identity parametric curve (g = 1, a = 1,
\* b..f = 0), value_count = 1 with big-endian u16 value v the pure-gamma
\* parametric curve with g = v / 256 (a = 1, b..f = 0), and
\* value_count >= 2 a sampled curve with table_entries = value_count whose
\* 16-bit table starts at payload byte 12 and whose 8-bit table is null.
C14_CurvDecoding ==
    IsCurv =>
        IF call.size < 12 \/ BLt(Nat32(call.size), CurvNeed)
        THEN ~out.ok
        ELSE /\ out.ok
             /\ out.curve_size = CurvNeed
             /\ hw <= call.size
             /\ out.curve.table_8 = NULL
             /\ IF BLt(ValueCount, Nat32(2))
                THEN LET tf == out.curve.parametric
                     IN  /\ out.curve.table_entries = <<>>
                         /\ out.curve.table_16 = NULL
                         /\ <<tf.a, tf.b, tf.c, tf.d, tf.e, tf.f>> =
                            <<F1, F0, F0, F0, F0, F0>>
                         /\ IF ValueCount = <<>> THEN tf.g = F1
                            ELSE IsOver256(tf.g, FirstValue)
                ELSE /\ out.curve.table_entries = ValueCount
                     /\ out.curve.table_16 = 12

\* a value_count of 2^31 or more was refused although 12 + 2 * value_count
\* is at most the size in 32-bit arithmetic
C14_Witness ==
    /\ IsCurv /\ ~out.ok /\ call.size >= 12
    /\ Limb(ValueCount, 2) >= 32768
    /\ BLe(BAdd(Nat32(12), BMul(ValueCount, 2, W32), W32), Nat32(call.size))

\* a single value of 2.0 was decoded
C14_WitnessGamma ==
    /\ IsCurv /\ out.ok /\ ValueCount = Nat32(1) /\ FirstValue = 512
    /\ out.curve.parametric.g = [s |-> 0, m |-> 8388608, e |-> -22]

\* a table of four values was decoded from a payload of exactly 20 bytes
C14_WitnessSampled ==
    /\ IsCurv /\ out.ok /\ ValueCount = Nat32(4) /\ call.size = 20
    /\ out.curve.table_entries = Nat32(4)

(***************************************************************************)
(* C15                                                                     *)
(***************************************************************************)
\* the payload of the first directory entry, when parse has got to it
A2BPayload == BVal(EntryOffset(0))
A2BType == FieldAt(A2BPayload)
A2BTagParsed ==
    /\ PassedDirectory /\ NumEntries = 1
    /\ EntrySig(0) \in {Sig_A2B0, Sig_A2B1}
\* the fields of an mft1 or mft2 payload
MftInputChannels == DataByte(A2BPayload + 8)
MftOutputChannels == DataByte(A2BPayload + 9)
MftGridPoints == DataByte(A2BPayload + 10)
MftInputEntries == DataByte(A2BPayload + 48) * 256 + DataByte(A2BPayload + 49)
MftOutputEntries == DataByte(A2BPayload + 50) * 256 + DataByte(A2BPayload + 51)

\* C15: an 'mft1' or 'mft2' A2B payload decodes only if output_channels
\* is 3, input_channels is in 1..4 and the grid_points byte is at least 2,
\* and for 'mft2' only if input_table_entries and output_table_entries are
\* both in 2..4096; on success grid_points[i] is that byte for every
\* i < input_channels, matrix_channels = 0, and the tables of 'mft1' have
\* 256 entries each.
C15_MftDecodes ==
    (A2BTagParsed /\ A2BType \in {Sig_mft1, Sig_mft2} /\ ret) =>
        /\ profile.has_A2B
        /\ MftOutputChannels = 3
        /\ MftInputChannels \in 1..4
        /\ MftGridPoints >= 2
        /\ A2BType = Sig_mft2 =>
              /\ MftInputEntries \in 2..4096
              /\ MftOutputEntries \in 2..4096
              /\ \A i \in 1..MftInputChannels :
                    profile.A2B.input_curves[i].table_entries = Nat32(MftInputEntries)
              /\ \A i \in 1..3 :
                    profile.A2B.output_curves[i].table_entries = Nat32(MftOutputEntries)
        /\ profile.A2B.input_channels = MftInputChannels
        /\ profile.A2B.output_channels = 3
        /\ \A i \in 1..MftInputChannels : profile.A2B.grid_points[i] = MftGridPoints
        /\ profile.A2B.matrix_channels = 0
        /\ A2BType = Sig_mft1 =>
              /\ \A i \in 1..MftInputChannels :
                    profile.A2B.input_curves[i].table_entries = Nat32(256)
              /\ \A i \in 1..3 :
                    profile.A2B.output_curves[i].table_entries = Nat32(256)

\* an mft2 payload with 4096 entries in both kinds of table was decoded
C15_Witness ==
    /\ A2BTagParsed /\ A2BType = Sig_mft2 /\ ret
    /\ MftInputEntries = 4096 /\ MftOutputEntries = 4096

\* an mft2 payload with 4097 input table entries and room for them was
\* refused
C15_WitnessRefused ==
    /\ A2BTagParsed /\ A2BType = Sig_mft2 /\ ~ret /\ why = "a2b"
    /\ MftInputEntries = 4097 /\ MftOutputEntries = 2
    /\ MftOutputChannels = 3 /\ MftInputChannels = 1 /\ MftGridPoints = 2

\* an mft1 payload with four input channels was decoded
C15_WitnessMft1 ==
    /\ A2BTagParsed /\ A2BType = Sig_mft1 /\ ret
    /\ MftInputChannels = 4 /\ MftGridPoints = 3

(***************************************************************************)
(* C16                                                                     *)
(***************************************************************************)
\* the five sub-offsets of an mAB payload
MabB_Offset == FieldAt(A2BPayload + 12)
MabMatrix_Offset == FieldAt(A2BPayload + 16)
MabM_Offset == FieldAt(A2BPayload + 20)
MabClut_Offset == FieldAt(A2BPayload + 24)
MabA_Offset == FieldAt(A2BPayload + 28)
\* the presence rules
MabPresenceRules ==
    /\ MabB_Offset # <<>>
    /\ (MabM_Offset = <<>>) <=> (MabMatrix_Offset = <<>>)
    /\ (MabA_Offset = <<>>) <=> (MabClut_Offset = <<>>)

\* C16: an 'mAB ' payload decodes only if b_curve_offset is not 0,
\* m_curve_offset and matrix_offset are both 0 or both not, and
\* a_curve_offset and clut_offset are both 0 or both not; each of the five
\* violations makes the decode, and with it parse, fail.
C16_MabPresence ==
    (A2BTagParsed /\ A2BType = Sig_mAB) =>
        /\ ret => MabPresenceRules /\ profile.has_A2B
        /\ ~MabPresenceRules => ~ret /\ ~profile.has_A2B /\ why = "a2b"

\* a payload with all five blocks was decoded
C16_Witness ==
    /\ A2BTagParsed /\ A2BType = Sig_mAB /\ ret
    /\ MabB_Offset # <<>> /\ MabM_Offset # <<>> /\ MabA_Offset # <<>>
    /\ profile.A2B.matrix_channels = 3 /\ profile.A2B.input_channels = 3

\* a payload with a matrix and no M curves was refused; the same payload
\* without the matrix decodes
C16_WitnessMatrixOnly ==
    /\ A2BTagParsed /\ A2BType = Sig_mAB /\ ~ret
    /\ MabB_Offset # <<>> /\ MabM_Offset = <<>> /\ MabMatrix_Offset # <<>>
    /\ (MabA_Offset = <<>>) <=> (MabClut_Offset = <<>>)

\* a payload with a CLUT and no A curves was refused
C16_WitnessClutOnly ==
    /\ A2BTagParsed /\ A2BType = Sig_mAB /\ ~ret
    /\ MabB_Offset # <<>> /\ MabA_Offset = <<>> /\ MabClut_Offset # <<>>
    /\ (MabM_Offset = <<>>) <=> (MabMatrix_Offset = <<>>)

\* a payload with B curves only was decoded
C16_WitnessBOnly ==
    /\ A2BTagParsed /\ A2BType = Sig_mAB /\ ret
    /\ MabM_Offset = <<>> /\ MabA_Offset = <<>>
    /\ profile.A2B.matrix_channels = 0 /\ profile.A2B.input_channels = 0

(***************************************************************************)
(* C17                                                                     *)
(***************************************************************************)
\* skcms_eval_curve has returned for a table of at least two entries
IsSampledEval == pc = "evaluated" /\ BLe(Nat32(2), out.curve.table_entries)
\* the number of entries of that table
EvalEntries == BInt(out.curve.table_entries)
\* the bytes of entry i are written out in the buffer
WrittenOut(i) ==
    IF out.curve.table_8 # NULL THEN out.curve.table_8 + i < Len(data)
    ELSE out.curve.table_16 + 2 * i + 1 < Len(data)
\* entry i: a byte of an 8-bit table, a big-endian pair of a 16-bit one
TableEntry(i) ==
    IF out.curve.table_8 # NULL THEN DataByte(out.curve.table_8 + i)
    ELSE DataByte(out.curve.table_16 + 2 * i) * 256 +
         DataByte(out.curve.table_16 + 2 * i + 1)
\* the largest value of an entry
EntryScale == IF out.curve.table_8 # NULL THEN 255 ELSE 65535
\* floats at most one unit in the last place apart
WithinUlp(y, z) ==
    \/ y = z
    \/ z.m # 0 /\ y = minus_1_ulp(z)
    \/ y.m # 0 /\ z = minus_1_ulp(y)
\* y is entry i over the scale, to the last place
IsNormalized(y, i) ==
    WithinUlp(y, FDiv(IntAsFloat(TableEntry(i)), IntAsFloat(EntryScale)))

\* C17: for every sampled curve of N >= 2 entries, skcms_eval_curve reads
\* only the table indices lo and hi, both in [0, N-1]; an argument at or
\* below 0 gives entry 0 normalised, an argument at or above 1 gives entry
\* N-1 normalised (over 255 for 8-bit, 65535 for 16-bit tables).
C17_EvalInsideTable ==
    IsSampledEval =>
        /\ out.lo \in 0..(EvalEntries - 1)
        /\ out.hi \in 0..(EvalEntries - 1)
        /\ (~FLt(F0, out.x) /\ WrittenOut(0)) => IsNormalized(out.y, 0)
        /\ (~FLt(out.x, F1) /\ WrittenOut(EvalEntries - 1)) =>
              IsNormalized(out.y, EvalEntries - 1)

(***************************************************************************)
(* C20                                                                     *)
(***************************************************************************)
\* skcms_AreApproximateInverses has returned
IsCompared == pc = "compared"
\* N = max(table_entries, 256)
SampleCount ==
    IF BLt(Nat32(256), out.curve.table_entries) THEN BInt(out.curve.table_entries)
    ELSE 256
\* x_i = i / (N - 1)
SampleX(i) == FDiv(IntAsFloat(i), IntAsFloat(SampleCount - 1))
\* |x_i - B(eval(A, x_i))| <= 1/512
SampleOk(i) ==
    ~FLt(FDiv(F1, IntAsFloat(512)),
         fabsf_(FSub(SampleX(i),
                     skcms_TransferFunction_eval(out.B,
                         skcms_eval_curve(data, out.curve, SampleX(i)).y))))

\* C20: skcms_AreApproximateInverses(A, B) returns true exactly when every
\* sample x_i = i/(N-1), i in [0, N), N = max(A.table_entries, 256), has
\* |x_i - B(eval(A, x_i))| <= 1/512, x_0 = 0 and x_(N-1) = 1 included; it
\* returns false at the first sample that violates the bound.
C20_InverseExactly ==
    IsCompared =>
        /\ out.ok <=> \A i \in 0..(SampleCount - 1) : SampleOk(i)
        /\ ~out.ok =>
              /\ ~SampleOk(out.samples - 1)
              /\ \A j \in 0..(out.samples - 2) : SampleOk(j)
        /\ SampleX(0) = F0
        /\ SampleX(SampleCount - 1) = F1

(***************************************************************************)
(* C21                                                                     *)
(***************************************************************************)
\* the call must be refused before fitting: a null or parametric curve, or
\* more than INT_MAX entries
MustRefuse ==
    \/ call.curve_null
    \/ call.curve.table_entries = <<>>
    \/ Limb(call.curve.table_entries, 2) >= 32768

\* the state of a call of skcms_ApproximateCurve is as the claim has it
FitStateOk ==
    /\ pc = "fitting" =>
          /\ out.iter <= MaxIterations
          /\ out.cand <= FitCandidates
          /\ ~MustRefuse
          /\ out.n >= 1
    /\ pc = "returned" =>
          /\ MustRefuse =>
                ~out.ok /\ out.rejected /\ out.approx = StaleTF /\ out.max_error = StaleError
          /\ out.ok =>
                /\ \A k \in DOMAIN out.approx : IsFinite(out.approx[k])
                /\ FLt(F0, out.approx.a)
                /\ FLt(F0, out.approx.g)
                /\ IsFinite(out.max_error)

\* a step changes the parameters of a candidate only with a smaller
\* residual, and no step changes the buffer or the curve
FitStepOk ==
    /\ (pc = "fitting" /\ pc' = "fitting" /\ out'.cand = out.cand /\ out' # out) =>
          out'.residual < out.residual /\ out'.iter = out.iter + 1
    /\ data' = data
    /\ call' = call
    /\ profile' = profile

C21_WitnessRefused ==
    /\ pc = "returned" /\ out.rejected /\ ~call.curve_null /\ ~call.approx_null
    /\ call.curve.table_entries = <<0, 32768>>

C21_WitnessUnfit ==
    /\ pc = "returned" /\ ~out.ok /\ ~out.rejected
    /\ call.curve.table_entries = Nat32(INT_MAX)

(***************************************************************************)
(* C22                                                                     *)
(***************************************************************************)
\* the size and tag_count fields of the header, when the buffer holds them
HeaderSize == FieldAt(OffSize)
HeaderTagCount == FieldAt(OffTagCount)
\* size < 132 + 12 * tag_count in unbounded arithmetic
DirectoryOverSize ==
    BLt(HeaderSize, ExactAdd(Nat32(132), ExactMul(HeaderTagCount, 12)))

\* C22: the directory-size check of parse is free of integer wraparound:
\* for every 32-bit tag_count and size, either parser on either word size
\* rejects the buffer whenever size < 132 + 12*tag_count in unbounded
\* arithmetic.
C22_DirectoryCheckExact ==
    (pc = "parsed" /\ Len(data) >= SizeofHeader /\ DirectoryOverSize) =>
        ~ret /\ why = "header"


(***************************************************************************)
(* C23: the tables of an mft1 or mft2 tag                                  *)
(***************************************************************************)
\* bytes per table entry, the fixed prefix of the tag, entries per table
MftWidth == IF A2BType = Sig_mft1 THEN 1 ELSE 2
MftPrefix == IF A2BType = Sig_mft1 THEN 48 ELSE 52
MftInEntries == IF A2BType = Sig_mft1 THEN 256 ELSE MftInputEntries
MftOutEntries == IF A2BType = Sig_mft1 THEN 256 ELSE MftOutputEntries
MftTables == A2BPayload + MftPrefix
MftInputBytes == MftWidth * MftInputChannels * MftInEntries
MftOutputBytes == MftWidth * MftOutputChannels * MftOutEntries

RECURSIVE ExactTimesPower(_, _, _)
\* a * k^n, exactly
ExactTimesPower(a, k, n) ==
    IF n = 0 THEN a ELSE ExactTimesPower(ExactMul(a, k), k, n - 1)

\* width * output_channels * PROD grid_points, exactly
MftGridBytes ==
    ExactTimesPower(Nat32(MftWidth * MftOutputChannels), MftGridPoints,
                    MftInputChannels)
MftTableBytes ==
    ExactAdd(ExactAdd(Nat32(MftInputBytes), MftGridBytes), Nat32(MftOutputBytes))
\* the table pointer of a curve and the grid pointer, of the width in use
MftTable(c) == IF MftWidth = 1 THEN c.table_8 ELSE c.table_16
MftGrid == IF MftWidth = 1 THEN profile.A2B.grid_8 ELSE profile.A2B.grid_16

\* C23: when an 'mft1' or 'mft2' A2B payload decodes, the exact sum of its
\* input-table, grid and output-table bytes plus the prefix (48 for mft1,
\* 52 for mft2) is at most the tag size; input curve i starts at
\* tables + i*w*input_table_entries, the grid right after the input tables,
\* and output curve j at grid + w*output_channels*PROD(grid_points) +
\* j*w*output_table_entries; the pointer of the other width is null.
C23_MftTablesContiguous ==
    (A2BTagParsed /\ A2BType \in {Sig_mft1, Sig_mft2} /\ ret) =>
        /\ BLe(ExactAdd(MftTableBytes, Nat32(MftPrefix)), EntrySize(0))
        /\ \A i \in 1..MftInputChannels :
              /\ MftTable(profile.A2B.input_curves[i]) =
                    MftTables + (i - 1) * MftWidth * MftInEntries
              /\ NULL \in {profile.A2B.input_curves[i].table_8,
                           profile.A2B.input_curves[i].table_16}
        /\ MftGrid = MftTables + MftInputBytes
        /\ NULL \in {profile.A2B.grid_8, profile.A2B.grid_16}
        /\ \A j \in 1..3 :
              /\ MftTable(profile.A2B.output_curves[j]) =
                    MftGrid + BInt(MftGridBytes) + (j - 1) * MftWidth * MftOutEntries
              /\ NULL \in {profile.A2B.output_curves[j].table_8,
                           profile.A2B.output_curves[j].table_16}

\* an mft1 payload whose tables end exactly at the end of the tag was
\* decoded
C23_Witness ==
    /\ A2BTagParsed /\ A2BType = Sig_mft1 /\ ret
    /\ ExactAdd(MftTableBytes, Nat32(MftPrefix)) = EntrySize(0)

\* an mft1 payload one byte too short for its tables was refused
C23_WitnessShort ==
    /\ A2BTagParsed /\ A2BType = Sig_mft1 /\ ~ret /\ why = "a2b"
    /\ MftOutputChannels = 3 /\ MftInputChannels = 1 /\ MftGridPoints = 2
    /\ ExactAdd(MftTableBytes, Nat32(MftPrefix)) = ExactAdd(EntrySize(0), Nat32(1))

\* an mft2 payload with four input channels was decoded
C23_WitnessMft2 ==
    /\ A2BTagParsed /\ A2BType = Sig_mft2 /\ ret
    /\ MftInputChannels = 4 /\ MftGridPoints = 2


(***************************************************************************)
(* C24: input_channels = 0                                                 *)
(***************************************************************************)
\* the input_channels byte of an mft1, mft2 or mAB payload
StoredInputChannels == DataByte(A2BPayload + 8)
\* the tag has an input stage: the tables of mft1 and mft2, the A curves
\* and the CLUT of mAB
InputStagePresent ==
    \/ A2BType \in {Sig_mft1, Sig_mft2}
    \/ A2BType = Sig_mAB /\ MabA_Offset # <<>> /\ MabClut_Offset # <<>>

\* C24: in the A2B record of a successful parse input_channels = 0 only if
\* the tag was an 'mAB ' with a_curve_offset = 0 and clut_offset = 0, whose
\* stored input_channels byte was 3; when the A-curve/CLUT stage is present
\* input_channels is in 1..4 and every grid_points[i], i < input_channels,
\* is at least 2.
C24_ZeroInputsMeansElided ==
    (A2BTagParsed /\ ret /\ profile.has_A2B) =>
        /\ profile.A2B.input_channels = 0 =>
              /\ A2BType = Sig_mAB
              /\ MabA_Offset = <<>> /\ MabClut_Offset = <<>>
              /\ StoredInputChannels = 3
        /\ InputStagePresent =>
              /\ profile.A2B.input_channels \in 1..4
              /\ \A i \in 1..profile.A2B.input_channels :
                    profile.A2B.grid_points[i] >= 2


(***************************************************************************)
(* C25: the curves of an mAB stage                                         *)
(***************************************************************************)
\* the size the directory declares for the A2B tag
A2BTagSize == BInt(EntrySize(0))
\* read_tag_mab got as far as its B curves
MabReachedCurves ==
    /\ A2BTagParsed /\ A2BType = Sig_mAB
    /\ A2BTagSize >= 32
    /\ DataByte(A2BPayload + 9) = 3 /\ StoredInputChannels <= 4
    /\ MabB_Offset # <<>>
\* the bytes the curve at offset o of the payload takes: 12 + 2 * count for
\* 'curv', 12 + the parameter bytes for 'para', -1 for anything else
CurveConsumed(o) ==
    LET type == FieldAt(A2BPayload + o)
        ft   == DataByte(A2BPayload + o + 8) * 256 + DataByte(A2BPayload + o + 9)
    IN  IF type = Sig_curv THEN 12 + 2 * BInt(FieldAt(A2BPayload + o + 8))
        ELSE IF type = Sig_para /\ ft <= 4
        THEN 12 + (CASE ft = 0 -> 4 [] ft = 1 -> 12 [] ft = 2 -> 16
                     [] ft = 3 -> 20 [] ft = 4 -> 28)
        ELSE -1
\* the curve at o lies inside the tag
CurveFits(o) ==
    /\ o + 12 <= A2BTagSize
    /\ CurveConsumed(o) # -1
    /\ o + CurveConsumed(o) <= A2BTagSize
\* o + 4 * ceil(consumed / 4)
NextCurveOffset(o) == o + 4 * ((CurveConsumed(o) + 3) \div 4)

RECURSIVE StageOffset(_, _)
\* the offset o_i of curve i of the stage that starts at o
StageOffset(o, i) ==
    IF i = 0 THEN o ELSE NextCurveOffset(StageOffset(o, i - 1))

\* every one of the k curves of the stage at o lies inside the tag
StageFits(o, k) == \A i \in 0..(k - 1) : CurveFits(StageOffset(o, i))

\* the curve c is what the bytes at offset o say
CurveIsAt(c, o) ==
    IF FieldAt(A2BPayload + o) = Sig_curv /\
       BLe(Nat32(2), FieldAt(A2BPayload + o + 8))
    THEN /\ c.table_16 = A2BPayload + o + 12
         /\ c.table_8 = NULL
         /\ c.table_entries = FieldAt(A2BPayload + o + 8)
    ELSE /\ c.table_entries = <<>>
         /\ c.table_16 = NULL /\ c.table_8 = NULL
         /\ FieldAt(A2BPayload + o) = Sig_para =>
               c.parametric.g = FixedAt(A2BPayload + o + 12)
         /\ FieldAt(A2BPayload + o) = Sig_curv =>
               IF FieldAt(A2BPayload + o + 8) = <<>> THEN c.parametric.g = F1
               ELSE IsOver256(c.parametric.g,
                              DataByte(A2BPayload + o + 12) * 256 +
                              DataByte(A2BPayload + o + 13))
\* the k curves of the stage at offset off were decoded at o_0 .. o_{k-1}
StageDecoded(off, k, curves) ==
    /\ StageFits(BInt(off), k)
    /\ \A i \in 0..(k - 1) : CurveIsAt(curves[i + 1], StageOffset(BInt(off), i))
\* the payload has B curves only, none of them a 'para' with parameters
\* that could be refused
MabBOnly ==
    /\ MabReachedCurves
    /\ StoredInputChannels = 3
    /\ MabMatrix_Offset = <<>> /\ MabM_Offset = <<>>
    /\ MabClut_Offset = <<>> /\ MabA_Offset = <<>>

C25_WitnessShort ==
    /\ MabBOnly /\ ~ret /\ why = "a2b"
    /\ BInt(MabB_Offset) = 32 /\ A2BTagSize = 77

\* a stage offset beyond the tag was refused
C25_WitnessBeyond ==
    /\ MabBOnly /\ ~ret /\ why = "a2b"
    /\ BInt(MabB_Offset) = 200 /\ A2BTagSize = 86


(***************************************************************************)
(* C26: the CLUT and the matrix of an mAB payload                          *)
(***************************************************************************)
\* the CLUT header of the payload: grid_points[i] and grid_byte_width; 0
\* where the header is not in the buffer
ClutAt == A2BPayload + BInt(MabClut_Offset)
ClutInBuffer == BLt(MabClut_Offset, Nat32(Len(data)))
ClutGridPoints(i) == IF ClutInBuffer THEN DataByte(ClutAt + i) ELSE 0
ClutWidth == IF ClutInBuffer THEN DataByte(ClutAt + 16) ELSE 0

RECURSIVE ExactGridBytes(_, _)
\* a * grid_points[i] * ... * grid_points[input_channels - 1], exactly
ExactGridBytes(a, i) ==
    IF i >= StoredInputChannels THEN a
    ELSE ExactGridBytes(ExactMul(a, ClutGridPoints(i)), i + 1)

\* clut_offset + 20 + grid_byte_width * output_channels * PROD grid_points
ClutEnd ==
    ExactAdd(ExactAdd(MabClut_Offset, Nat32(20)),
             ExactGridBytes(Nat32(ClutWidth * 3), 0))

\* C26: an 'mAB ' payload with A curves and a CLUT decodes only if
\* clut_offset + 20 <= tag size, grid_byte_width is 1 or 2, each of the
\* first input_channels grid_points bytes is at least 2 and
\* clut_offset + 20 + grid_byte_width * output_channels * PROD grid_points
\* <= tag size, all computed exactly for any 32-bit clut_offset; the record
\* then holds those grid points and the grid at clut_offset + 20 under the
\* pointer of its width; a payload with M curves and a matrix decodes only
\* if matrix_offset + 48 <= tag size, computed exactly.
C26_ClutAndMatrixInsideTag ==
    (MabReachedCurves /\ ret) =>
        /\ MabA_Offset # <<>> =>
              /\ BLe(ExactAdd(MabClut_Offset, Nat32(20)), EntrySize(0))
              /\ ClutWidth \in {1, 2}
              /\ \A i \in 0..(StoredInputChannels - 1) :
                    /\ ClutGridPoints(i) >= 2
                    /\ profile.A2B.grid_points[i + 1] = ClutGridPoints(i)
              /\ BLe(ClutEnd, EntrySize(0))
              /\ profile.A2B.grid_8 = IF ClutWidth = 1 THEN ClutAt + 20 ELSE NULL
              /\ profile.A2B.grid_16 = IF ClutWidth = 2 THEN ClutAt + 20 ELSE NULL
        /\ MabM_Offset # <<>> =>
              BLe(ExactAdd(MabMatrix_Offset, Nat32(48)), EntrySize(0))

\* a CLUT whose grid ends exactly at the end of the tag was decoded
C26_Witness ==
    /\ MabReachedCurves /\ ret /\ MabA_Offset # <<>>
    /\ ClutEnd = EntrySize(0) /\ ClutWidth = 2
    /\ A2BPayload + A2BTagSize < Len(data)

\* a CLUT with a grid_points byte of 1 on an axis in use was refused
C26_WitnessOnePoint ==
    /\ MabReachedCurves /\ ~ret /\ MabA_Offset # <<>>
    /\ ClutWidth = 1 /\ StoredInputChannels = 3
    /\ ClutGridPoints(2) = 1 /\ A2BTagSize = 288 /\ BInt(MabClut_Offset) = 212

\* a clut_offset of 2^32 - 20 was refused
C26_WitnessTop ==
    /\ MabReachedCurves /\ ~ret /\ MabA_Offset # <<>>
    /\ ExactAdd(MabClut_Offset, Nat32(20)) = Two32

\* a matrix that ends exactly at the end of the tag was read
C26_WitnessMatrix ==
    /\ MabReachedCurves /\ ret /\ MabM_Offset # <<>>
    /\ ExactAdd(MabMatrix_Offset, Nat32(48)) = EntrySize(0)

\* a matrix_offset of 2^32 - 48 was refused
C26_WitnessMatrixTop ==
    /\ MabReachedCurves /\ ~ret /\ MabM_Offset # <<>>
    /\ ExactAdd(MabMatrix_Offset, Nat32(48)) = Two32


(***************************************************************************)
(* C27: channels and matrix of an A2B record                               *)
(***************************************************************************)
\* the 15.16 value number k (0..11) at matrix_offset of the payload
MatrixValue(k) == FixedAt(A2BPayload + BInt(MabMatrix_Offset) + 4 * k)
\* the tag is an 'mAB ' with M curves and a matrix
MabHasMatrix ==
    A2BType = Sig_mAB /\ MabM_Offset # <<>> /\ MabMatrix_Offset # <<>>

\* C27: the A2B record of a successful parse with has_A2B set has
\* output_channels = 3, input_channels in 0..4 and matrix_channels 0 or 3;
\* matrix_channels is 3 exactly for an 'mAB ' tag with m_curve_offset and
\* matrix_offset both non-zero, and then vals[r][c] is value 3*r + c at
\* matrix_offset for c < 3 and vals[r][3] is value 9 + r; for mft1 and mft2
\* matrix_channels is 0.
C27_ChannelsAndMatrix ==
    (A2BTagParsed /\ ret /\ profile.has_A2B) =>
        /\ profile.A2B.output_channels = 3
        /\ profile.A2B.input_channels \in 0..4
        /\ profile.A2B.matrix_channels \in {0, 3}
        /\ (profile.A2B.matrix_channels = 3) <=> MabHasMatrix
        /\ MabHasMatrix =>
              \A r \in 0..2 :
                 /\ \A k \in 0..2 :
                       profile.A2B.matrix[r + 1][k + 1] = MatrixValue(3 * r + k)
                 /\ profile.A2B.matrix[r + 1][4] = MatrixValue(9 + r)
        /\ A2BType \in {Sig_mft1, Sig_mft2} => profile.A2B.matrix_channels = 0

\* an mAB with a matrix of twelve distinct values was decoded
C27_Witness ==
    /\ A2BTagParsed /\ ret /\ profile.has_A2B /\ MabHasMatrix
    /\ \A j, k \in 0..11 : j # k => MatrixValue(j) # MatrixValue(k)
    /\ profile.A2B.matrix_channels = 3

\* an mft2 was decoded with matrix_channels = 0, the nine values after its
\* grid_points byte not being zero
C27_WitnessMft ==
    /\ A2BTagParsed /\ ret /\ profile.has_A2B /\ A2BType = Sig_mft2
    /\ profile.A2B.matrix_channels = 0
    /\ \A k \in 0..8 : FieldAt(A2BPayload + 12 + 4 * k) # <<>>

\* an mAB without M curves and matrix was decoded
C27_WitnessNoMatrix ==
    /\ A2BTagParsed /\ ret /\ profile.has_A2B /\ A2BType = Sig_mAB
    /\ MabM_Offset = <<>> /\ profile.A2B.matrix_channels = 0


(***************************************************************************)
(* C28: the two table indices of skcms_eval_curve                          *)
(***************************************************************************)
\* the float f is a whole number
IsWhole(f) ==
    \/ f.m = 0
    \/ f.e >= 0
    \/ f.e >= -23 /\ f.m % (2 ^ (-f.e)) = 0

C28_WitnessBetween ==
    /\ IsSampledEval /\ EvalEntries = 257
    /\ out.x = FDiv(F1, IntAsFloat(3))
    /\ out.lo = 85 /\ out.hi = 86


(***************************************************************************)
(* C29: the byte readers on either host                                    *)
(***************************************************************************)
\* the readers have run at data + out.p
IsRead == pc = "read"
\* b0 * 256 + b1 for the bytes at off
BigEndian16(off) == DataByte(off) * 256 + DataByte(off + 1)
\* b0 * 256^7 + ... + b7
BigEndian64(off) ==
    BNorm(<<Limb(FieldAt(off + 4), 1), Limb(FieldAt(off + 4), 2),
            Limb(FieldAt(off), 1), Limb(FieldAt(off), 2)>>)
\* the two's complement reading of the 32-bit number at off, as sign and
\* magnitude
BigEndianSigned32(off) ==
    IF DataByte(off) >= 128
    THEN [neg |-> 1, mag |-> BSub(Two32, FieldAt(off), 3)]
    ELSE [neg |-> 0, mag |-> FieldAt(off)]

\* C29: on a little-endian and on a big-endian host read_big_u16, _u32 and
\* _u64 return b0*256^(n-1) + ... + b(n-1) for the bytes at the pointer,
\* read_big_i32 its two's complement reading, read_big_fixed that value
\* divided by 65536, and the 16-bit table entries of skcms_eval_curve are
\* read big-endian; this holds for the readers of both versions of
\* ICCProfile.c.
C29_ReadersIgnoreHost ==
    IsRead =>
        /\ out.u16 = BigEndian16(out.p)
        /\ out.u32 = FieldAt(out.p)
        /\ out.u64 = BigEndian64(out.p)
        /\ out.i32 = BigEndianSigned32(out.p)
        /\ out.fixed = FixedAt(out.p)
        /\ out.entry = BigEndian16(out.p)
        /\ out.u16_shifts = BigEndian16(out.p)
        /\ out.u32_shifts = FieldAt(out.p)
        /\ out.u64_shifts = BigEndian64(out.p)


(***************************************************************************)
(* C30: the curves of a parsed profile                                     *)
(***************************************************************************)
\* the tag TRC slot k (1..3) is decoded from
TRCSig(k) == IF Present(Sig_kTRC) THEN Sig_kTRC ELSE RGBTRC[k]
\* the table of a sampled curve and the bytes of one entry
CurveTable(c) == IF c.table_8 # NULL THEN c.table_8 ELSE c.table_16
CurveWidth(c) == IF c.table_8 # NULL THEN 1 ELSE 2
\* the curve is sampled
IsSampled(c) == c.table_entries # <<>>
\* c is parametric, or sampled with at least two entries, one table pointer
\* and its table inside the bytes of the first tag with signature sig
CurveWellFormed(c, sig) ==
    IsSampled(c) =>
        /\ BLe(Nat32(2), c.table_entries)
        /\ (c.table_8 = NULL) # (c.table_16 = NULL)
        /\ BLe(EntryOffset(FirstIndex(sig)), Nat32(CurveTable(c)))
        /\ BLe(ExactAdd(Nat32(CurveTable(c)),
                        ExactMul(c.table_entries, CurveWidth(c))),
               EntryEnd(FirstIndex(sig)))

\* C30: after a successful parse every active curve (the three TRC slots
\* when has_trc; when has_A2B the first input_channels input curves, the
\* first matrix_channels matrix curves and the three output curves) is
\* parametric with table_entries = 0, or sampled with table_entries >= 2,
\* exactly one of table_8 and table_16 non-null and its whole table inside
\* [offset, offset + size) of the tag it was decoded from.
C30_ActiveCurvesWellFormed ==
    (PassedDirectory /\ ret) =>
        /\ profile.has_trc =>
              \A k \in 1..3 : CurveWellFormed(profile.trc[k], TRCSig(k))
        /\ profile.has_A2B =>
              /\ \A i \in 1..profile.A2B.input_channels :
                    CurveWellFormed(profile.A2B.input_curves[i], SelectedA2B)
              /\ \A i \in 1..profile.A2B.matrix_channels :
                    CurveWellFormed(profile.A2B.matrix_curves[i], SelectedA2B)
              /\ \A i \in 1..3 :
                    CurveWellFormed(profile.A2B.output_curves[i], SelectedA2B)

\* a parse succeeded with a sampled and a parametric TRC curve and with
\* sampled A2B input and output curves
C30_Witness ==
    /\ PassedDirectory /\ ret /\ profile.has_trc /\ profile.has_A2B
    /\ \E k \in 1..3 : IsSampled(profile.trc[k])
    /\ \E k \in 1..3 : ~IsSampled(profile.trc[k])
    /\ profile.A2B.input_channels >= 1
    /\ IsSampled(profile.A2B.input_curves[1])
    /\ IsSampled(profile.A2B.output_curves[3])

\* a parse succeeded with parametric A2B curves only
C30_WitnessParametric ==
    /\ PassedDirectory /\ ret /\ profile.has_A2B
    /\ \A i \in 1..3 : ~IsSampled(profile.A2B.output_curves[i])

====
